---------------------------- MODULE Spec2Model ----------------------------
(***************************************************************************)
(* A model of fastblur 0.2.0: the linear-light pixel buffer, the gamma     *)
(* transfer functions, the recursive moving-average filter, the transpose, *)
(* the fill-crop geometry, the option parsers and the pipeline of main.    *)
(*                                                                         *)
(* A C float is modelled as an exact rational <<num, den>> (den > 0, in    *)
(* lowest terms) or as one of the IEEE specials NaN and +-Inf, so the      *)
(* arithmetic of the filter is the arithmetic of the reals: the rounding   *)
(* of single precision is not modelled.                                    *)
(*                                                                         *)
(* Memory is a heap of malloc'ed blocks of floats; a pointer is a block    *)
(* and an offset into it.  A read of a cell that was never written, of a   *)
(* freed block or outside a block yields an indeterminate value, which     *)
(* every operation that reads memory takes as the parameter g.             *)
(***************************************************************************)
EXTENDS Integers, Sequences, FiniteSets, TLC

VARIABLES
    pc,                 \* where main is, or the stage of a call made on its own
    arguments,          \* struct arguments
    arg_num,            \* argp's count of the positional arguments met so far
    argc,               \* how many command-line items were parsed so far
    gamma_decode_lut,   \* the global table: "zeroed" or "initialized"
    bitmap,             \* the decoded input file: [width, height, format, bytes]
    heap,               \* the malloc'ed blocks of floats
    img, img2,          \* main's two struct img
    main_src, main_dst, \* main's pointers src and dst, each "img" or "img2"
    pass_i,             \* the counter i of main's pass loops
    crop,               \* main's crop_w, crop_h, crop_x, crop_y
    cropped, resized,   \* the two struct img of main's resize block
    out,                \* the encoded output bitmap
    stages,             \* the calls main has made on its buffers, in order
    call                \* the arguments and the result of the last call

vars == <<pc, arguments, arg_num, argc, gamma_decode_lut, bitmap, heap, img, img2,
          main_src, main_dst, pass_i, crop, cropped, resized, out, stages, call>>

\* What a call made on its own leaves alone.
mainVars == <<arguments, arg_num, argc, gamma_decode_lut, bitmap, main_src, main_dst, pass_i, crop,
              cropped, resized, out, stages>>

(***************************************************************************)
(* Bounds of the model.                                                    *)
(***************************************************************************)
MaxW == 2
MaxH == 2
MaxP == 1

(***************************************************************************)
(* Floats.                                                                 *)
(***************************************************************************)
NaN == <<0, 0>>
Inf == <<1, 0>>
NegInf == <<-1, 0>>

Abs(x) == IF x < 0 THEN -x ELSE x

RECURSIVE GCD(_, _)
GCD(a, b) == IF b = 0 THEN a ELSE GCD(b, a % b)

Rat(n, d) ==
    LET g == GCD(Abs(n), d)
    IN  <<n \div g, d \div g>>

FInt(k) == <<k, 1>>

IsFinite(a) == a[2] # 0

FNeg(a) == <<-a[1], a[2]>>

FAdd(a, b) ==
    IF IsFinite(a) /\ IsFinite(b)
    THEN LET g == GCD(a[2], b[2])
         IN  Rat(a[1] * (b[2] \div g) + b[1] * (a[2] \div g), a[2] * (b[2] \div g))
    ELSE IF a = NaN \/ b = NaN THEN NaN
    ELSE IF ~IsFinite(a) /\ ~IsFinite(b) THEN (IF a = b THEN a ELSE NaN)
    ELSE IF ~IsFinite(a) THEN a ELSE b

FSub(a, b) == FAdd(a, FNeg(b))

FMul(a, b) ==
    IF IsFinite(a) /\ IsFinite(b)
    THEN LET g1 == GCD(Abs(a[1]), b[2])
             g2 == GCD(Abs(b[1]), a[2])
         IN  Rat((a[1] \div g1) * (b[1] \div g2), (a[2] \div g2) * (b[2] \div g1))
    ELSE IF a = NaN \/ b = NaN \/ a[1] = 0 \/ b[1] = 0 THEN NaN
    ELSE IF (a[1] > 0) = (b[1] > 0) THEN Inf ELSE NegInf

\* What a read of indeterminate memory can yield.
Indeterminate == {NaN, Inf}

(***************************************************************************)
(* The heap.                                                               *)
(***************************************************************************)
NULL == [blk |-> 0, off |-> 0]

SizeofFloat == 4

\* malloc(bytes): a fresh block of bytes / sizeof(float) cells, none written.
Malloc(h, bytes) ==
    [heap |-> Append(h, [cells |-> <<>>, cap |-> bytes \div SizeofFloat, live |-> TRUE]),
     ptr  |-> [blk |-> Len(h) + 1, off |-> 0]]

\* free(p): free(NULL) does nothing.
Free(h, p) ==
    IF p = NULL THEN h
    ELSE [h EXCEPT ![p.blk] = [cells |-> <<>>, cap |-> @.cap, live |-> FALSE]]

InBlock(h, p, k) ==
    /\ p.blk \in 1..Len(h)
    /\ h[p.blk].live
    /\ p.off + k >= 0
    /\ p.off + k < h[p.blk].cap

\* p[k] as an rvalue.
Load(h, p, k, g) ==
    IF InBlock(h, p, k) /\ (p.off + k) \in DOMAIN h[p.blk].cells
    THEN h[p.blk].cells[p.off + k]
    ELSE g

\* p[k] = v.  A store outside every live block changes no modelled object.
Store(h, p, k, v) ==
    IF InBlock(h, p, k)
    THEN [h EXCEPT ![p.blk].cells = ((p.off + k) :> v) @@ @]
    ELSE h

(***************************************************************************)
(* struct img and its operations.                                          *)
(***************************************************************************)
IDX(w, x, y, s) == s * (w * y + x)

MIN(a, b) == IF a < b THEN a ELSE b
MAX(a, b) == IF a > b THEN a ELSE b

\* A struct img that was declared and not yet initialised.
DeclaredImg ==
    [width |-> 0, height |-> 0, stride |-> 0, owner |-> "indeterminate",
     alloc_size |-> 0, pixels |-> NULL]

\* img_set_size without "img->stride = 3 * width".
img_set_size_keeps_stride(h, im, width, height) ==
    LET size == SizeofFloat * 3 * width * height
        im1  == [im EXCEPT !.width = width, !.height = height]
    IN  IF im.pixels = NULL \/ size > im.alloc_size
        THEN LET m == Malloc(Free(h, im.pixels), SizeofFloat * size * 3)
             IN  [heap |-> m.heap,
                  img  |-> [im1 EXCEPT !.alloc_size = size, !.pixels = m.ptr]]
        ELSE [heap |-> h, img |-> im1]

img_set_size(h, im, width, height) ==
    LET size == SizeofFloat * 3 * width * height
        im1  == [im EXCEPT !.width = width, !.height = height, !.stride = 3 * width]
    IN  IF im.pixels = NULL \/ size > im.alloc_size
        THEN LET m == Malloc(Free(h, im.pixels), SizeofFloat * size * 3)
             IN  [heap |-> m.heap,
                  img  |-> [im1 EXCEPT !.alloc_size = size, !.pixels = m.ptr]]
        ELSE [heap |-> h, img |-> im1]

img_init(h, im, w, hgt) ==
    img_set_size(h, [im EXCEPT !.pixels = NULL], w, hgt)

\* row[x][c] of the row "(float (*)[3]) &im->pixels[im->stride * y]".
RowCell(im, y, x, c) == im.stride * y + 3 * x + c


(***************************************************************************)
(* img_mov_avg_h: the recursive moving average along the rows.             *)
(***************************************************************************)
\* for (c = ..; c < 3; c++) dst_row[0][c] = src_row[0][c] * q * a
RECURSIVE mov_avg_first(_, _, _, _, _, _, _, _)
mov_avg_first(h, src, dst, y, c, q, a, g) ==
    IF c >= 3 THEN h
    ELSE mov_avg_first(
            Store(h, dst.pixels, RowCell(dst, y, 0, c),
                  FMul(FMul(Load(h, src.pixels, RowCell(src, y, 0, c), g), FInt(q)), a)),
            src, dst, y, c + 1, q, a, g)

\* for (c = ..; c < 3; c++) dst_row[0][c] += a * src_row[x][c]
RECURSIVE mov_avg_head_px(_, _, _, _, _, _, _, _)
mov_avg_head_px(h, src, dst, y, x, c, a, g) ==
    IF c >= 3 THEN h
    ELSE mov_avg_head_px(
            Store(h, dst.pixels, RowCell(dst, y, 0, c),
                  FAdd(Load(h, dst.pixels, RowCell(dst, y, 0, c), g),
                       FMul(a, Load(h, src.pixels, RowCell(src, y, x, c), g)))),
            src, dst, y, x, c + 1, a, g)

\* for (x = ..; x < q; x++) for (c = 0; c < 3; c++) ...
\* (In the loops the test h1 = h has the heap of a turn computed before the
\* next turn starts; both branches go on alike.)
RECURSIVE mov_avg_head(_, _, _, _, _, _, _, _)
mov_avg_head(h, src, dst, y, x, q, a, g) ==
    IF x >= q THEN h
    ELSE LET h1 == mov_avg_head_px(h, src, dst, y, x, 0, a, g)
         IN  IF h1 = h THEN mov_avg_head(h, src, dst, y, x + 1, q, a, g)
             ELSE mov_avg_head(h1, src, dst, y, x + 1, q, a, g)

\* for (c = ..; c < 3; c++)
\*     dst_row[x][c] = dst_row[x-1][c] + a * src_row[MIN(x+p, w-1)][c]
\*                                     - a * src_row[MAX(x-q, 0)][c]
RECURSIVE mov_avg_step(_, _, _, _, _, _, _, _, _, _, _)
mov_avg_step(h, src, dst, y, x, c, w, p, q, a, g) ==
    IF c >= 3 THEN h
    ELSE mov_avg_step(
            Store(h, dst.pixels, RowCell(dst, y, x, c),
                  FSub(FAdd(Load(h, dst.pixels, RowCell(dst, y, x - 1, c), g),
                            FMul(a, Load(h, src.pixels,
                                         RowCell(src, y, MIN(x + p, w - 1), c), g))),
                       FMul(a, Load(h, src.pixels,
                                    RowCell(src, y, MAX(x - q, 0), c), g)))),
            src, dst, y, x, c + 1, w, p, q, a, g)

\* for (x = ..; x < w; x++) for (c = 0; c < 3; c++) ...
RECURSIVE mov_avg_tail(_, _, _, _, _, _, _, _, _, _)
mov_avg_tail(h, src, dst, y, x, w, p, q, a, g) ==
    IF x >= w THEN h
    ELSE LET h1 == mov_avg_step(h, src, dst, y, x, 0, w, p, q, a, g)
         IN  IF h1 = h THEN mov_avg_tail(h, src, dst, y, x + 1, w, p, q, a, g)
             ELSE mov_avg_tail(h1, src, dst, y, x + 1, w, p, q, a, g)

\* for (y = ..; y < h; y++) { first value; rest of the window; recursion }
RECURSIVE mov_avg_rows(_, _, _, _, _, _, _, _, _, _)
mov_avg_rows(h, src, dst, y, w, hgt, p, q, a, g) ==
    IF y >= hgt THEN h
    ELSE LET h1 == mov_avg_tail(
                       mov_avg_head(mov_avg_first(h, src, dst, y, 0, q, a, g),
                                    src, dst, y, 1, q, a, g),
                       src, dst, y, 1, w, p, q, a, g)
         IN  IF h1 = h THEN mov_avg_rows(h, src, dst, y + 1, w, hgt, p, q, a, g)
             ELSE mov_avg_rows(h1, src, dst, y + 1, w, hgt, p, q, a, g)

\* The pixel indices x of src_row[x] that the three loops over a row of w
\* pixels read: src_row[0], src_row[1 .. q - 1], and for x = 1 .. w - 1
\* src_row[MIN(x + p, w - 1)] and src_row[MAX(x - q, 0)].
mov_avg_reads(w, n) ==
    LET p == (n - 1) \div 2
        q == p + 1
    IN  {0} \cup (1..(q - 1))
            \cup {MIN(x + p, w - 1) : x \in 1..(w - 1)}
            \cup {MAX(x - q, 0) : x \in 1..(w - 1)}

\* A filter whose window is the pixel itself, whatever n is.
img_mov_avg_h_copy(h, src, dst, n, g) ==
    LET r == img_set_size(h, dst, src.width, src.height)
    IN  [heap |-> mov_avg_rows(r.heap, src, r.img, 0, src.width, src.height,
                               0, 1, FInt(1), g),
         img  |-> r.img]

img_mov_avg_h(h, src, dst, n, g) ==
    LET r == img_set_size(h, dst, src.width, src.height)
        p == (n - 1) \div 2
    IN  [heap |-> mov_avg_rows(r.heap, src, r.img, 0, src.width, src.height,
                               p, p + 1, Rat(1, n), g),
         img  |-> r.img]

(***************************************************************************)
(* img_transpose.                                                          *)
(***************************************************************************)
\* A transpose that indexes the destination in the source's order.
RECURSIVE transpose_px_unswapped(_, _, _, _, _, _, _, _, _)
transpose_px_unswapped(h, src, dst, x, y, c, src_w, src_h, g) ==
    IF c >= 3 THEN h
    ELSE transpose_px_unswapped(
            Store(h, dst.pixels, IDX(src_h, x, y, 3) + c,
                  Load(h, src.pixels, IDX(src_w, x, y, 3) + c, g)),
            src, dst, x, y, c + 1, src_w, src_h, g)

\* for (c = ..; c < 3; c++)
\*     dst->pixels[IDX(src_h, y, x, 3) + c] = src->pixels[IDX(src_w, x, y, 3) + c]
RECURSIVE transpose_px(_, _, _, _, _, _, _, _, _)
transpose_px(h, src, dst, x, y, c, src_w, src_h, g) ==
    IF c >= 3 THEN h
    ELSE transpose_px(
            Store(h, dst.pixels, IDX(src_h, y, x, 3) + c,
                  Load(h, src.pixels, IDX(src_w, x, y, 3) + c, g)),
            src, dst, x, y, c + 1, src_w, src_h, g)

\* The y and x loops, k = src_w * y + x.
RECURSIVE transpose_loop(_, _, _, _, _, _, _)
transpose_loop(h, src, dst, k, src_w, src_h, g) ==
    IF k >= src_w * src_h THEN h
    ELSE LET h1 == transpose_px(h, src, dst, k % src_w, k \div src_w, 0, src_w, src_h, g)
         IN  IF h1 = h THEN transpose_loop(h, src, dst, k + 1, src_w, src_h, g)
             ELSE transpose_loop(h1, src, dst, k + 1, src_w, src_h, g)

img_transpose(h, src, dst, g) ==
    LET r == img_set_size(h, dst, src.height, src.width)
    IN  [heap |-> transpose_loop(r.heap, src, r.img, 0, src.width, src.height, g),
         img  |-> r.img]

(***************************************************************************)
(* struct geometry, struct raw_image_format, struct arguments.             *)
(***************************************************************************)
Formats == {"FORMAT_RGB", "FORMAT_RGBA", "FORMAT_ARGB",
            "FORMAT_BGR", "FORMAT_BGRA", "FORMAT_ABGR"}

pixel_format_size ==
    [f \in Formats |-> IF f \in {"FORMAT_RGB", "FORMAT_BGR"} THEN 3 ELSE 4]

pixel_format_rgb_offset ==
    [f \in Formats |->
        CASE f = "FORMAT_RGB"  -> <<0, 1, 2>>
          [] f = "FORMAT_RGBA" -> <<0, 1, 2>>
          [] f = "FORMAT_ARGB" -> <<1, 2, 3>>
          [] f = "FORMAT_BGR"  -> <<2, 1, 0>>
          [] f = "FORMAT_BGRA" -> <<2, 1, 0>>
          [] f = "FORMAT_ABGR" -> <<3, 2, 1>>]

\* A struct raw_image_format that was declared and never assigned.
DeclaredRawFmt == [format |-> "indeterminate", width |-> 0, height |-> 0]

\* main's struct arguments before argp_parse.
DefaultArguments ==
    [output_file |-> "indeterminate",
     input_file  |-> "indeterminate",
     fast_gamma  |-> FALSE,
     raw_image   |-> FALSE,
     blur_size   |-> 31,
     blur_passes |-> 4,
     crop_mode   |-> "CROP_NONE",
     geom        |-> [width |-> -1, height |-> -1, anchor |-> <<1, 2>>],
     raw_fmt     |-> DeclaredRawFmt]

NoBitmap == [width |-> 0, height |-> 0, format |-> "none", bytes |-> <<>>]

NoCrop == [crop_w |-> 0, crop_h |-> 0, crop_x |-> 0, crop_y |-> 0]

\* main's variables in a state where main does not run.
MainIdle ==
    /\ arguments = DefaultArguments
    /\ arg_num = 0
    /\ argc = 0
    /\ gamma_decode_lut = "zeroed"
    /\ bitmap = NoBitmap
    /\ main_src = "img"
    /\ main_dst = "img2"
    /\ pass_i = 0
    /\ crop = NoCrop
    /\ cropped = DeclaredImg
    /\ resized = DeclaredImg
    /\ out = <<>>
    /\ stages = <<>>

(***************************************************************************)
(* The filter and the transpose on their own: an owning image of any size  *)
(* and content, a second image initialised to the same size as in main,    *)
(* and one call of img_mov_avg_h, or img_transpose there and back.         *)
(***************************************************************************)
FilterPalette == {<<FInt(0), FInt(0), FInt(0)>>, <<FInt(1), Rat(1, 2), Rat(1, 4)>>}

Kernels == {2 * p + 1 : p \in 0..MaxP}

\* The samples of an owning image, in the order of its storage.
Samples(h, im) ==
    [k \in 0..(3 * im.width * im.height - 1) |->
        Load(h, im.pixels, im.stride * (k \div (3 * im.width)) + (k % (3 * im.width)), NaN)]

\* An image of w x hgt pixels holding the pixels px[0], px[1], ... row by row.
ImageOf(w, hgt, px) ==
    LET r == img_init(<<>>, DeclaredImg, w, hgt)
    IN  [heap |-> [r.heap EXCEPT ![r.img.pixels.blk].cells =
                        [k \in 0..(3 * w * hgt - 1) |-> px[k \div 3][(k % 3) + 1]]],
         img  |-> r.img]

NoCall == [op |-> "none", n |-> 0, width |-> 0, height |-> 0, samples |-> <<>>]

InitFilter ==
    \E w \in 1..MaxW, hgt \in 1..MaxH :
        \E px \in [0..(w * hgt - 1) -> FilterPalette] :
            LET a == ImageOf(w, hgt, px)
                b == img_init(a.heap, DeclaredImg, w, hgt)
            IN  /\ pc = "input"
                /\ MainIdle
                /\ heap = b.heap
                /\ img = a.img
                /\ img2 = b.img
                /\ call = [NoCall EXCEPT !.width = w, !.height = hgt,
                                         !.samples = Samples(a.heap, a.img)]

FilterMovAvg ==
    /\ pc = "input"
    /\ \E n \in Kernels, g \in Indeterminate :
        LET r == img_mov_avg_h(heap, img, img2, n, g)
        IN  /\ heap' = r.heap
            /\ img2' = r.img
            /\ call' = [call EXCEPT !.op = "img_mov_avg_h", !.n = n]
    /\ pc' = "filtered"
    /\ UNCHANGED <<img, mainVars>>

FilterTranspose ==
    /\ pc = "input"
    /\ \E g \in Indeterminate :
        LET r == img_transpose(heap, img, img2, g)
        IN  /\ heap' = r.heap
            /\ img2' = r.img
    /\ call' = [call EXCEPT !.op = "img_transpose"]
    /\ pc' = "transposed"
    /\ UNCHANGED <<img, mainVars>>

FilterTransposeBack ==
    /\ pc = "transposed"
    /\ \E g \in Indeterminate :
        LET r == img_transpose(heap, img2, img, g)
        IN  /\ heap' = r.heap
            /\ img' = r.img
    /\ pc' = "restored"
    /\ UNCHANGED <<img2, call, mainVars>>

NextFilter == FilterMovAvg \/ FilterTranspose \/ FilterTransposeBack

SpecFilter == InitFilter /\ [][NextFilter]_vars

(***************************************************************************)
(* The brute-force clamp-to-edge average of a row.                         *)
(***************************************************************************)
Clamp(x, lo, hi) == IF x < lo THEN lo ELSE IF x > hi THEN hi ELSE x

RECURSIVE WindowSum(_, _, _, _, _, _, _)
WindowSum(s, w, y, x, c, i, p) ==
    IF i > p THEN FInt(0)
    ELSE FAdd(s[3 * (w * y + Clamp(x + i, 0, w - 1)) + c],
              WindowSum(s, w, y, x, c, i + 1, p))

BruteForce(s, w, y, x, c, n) ==
    FMul(Rat(1, n), WindowSum(s, w, y, x, c, -((n - 1) \div 2), (n - 1) \div 2))

FilteredIsBruteForce ==
    \A k \in 0..(3 * call.width * call.height - 1) :
        Samples(heap, img2)[k] =
            BruteForce(call.samples, call.width, k \div (3 * call.width),
                       (k % (3 * call.width)) \div 3, k % 3, call.n)

\* C1: for every odd kernel size and every row width, rows narrower than the
\* kernel half-width included, img_mov_avg_h writes at every position of every
\* channel the brute-force clamp-to-edge average of the source row.
C1_MovAvgIsClampedAverage ==
    pc = "filtered" => FilteredIsBruteForce

\* The same for the rows that are wider than the kernel half-width.
MovAvgWideRows ==
    (pc = "filtered" /\ call.width > (call.n - 1) \div 2) => FilteredIsBruteForce

\* C2: transposing an owning buffer twice gives back its width, its height and
\* every channel of every pixel.
C2_TransposeTwiceIsIdentity ==
    pc = "restored" =>
        /\ img.width = call.width
        /\ img.height = call.height
        /\ img.stride = 3 * call.width
        /\ Samples(heap, img) = call.samples

C2_Witness ==
    /\ pc = "restored"
    /\ call.width # call.height
    /\ \E j, k \in DOMAIN call.samples : call.samples[j] # call.samples[k]

(***************************************************************************)
(* Gamma transfer.                                                         *)
(*                                                                         *)
(* powf is tabulated in units of 2^-24, the resolution of a float's        *)
(* mantissa.  LutTable[v + 1] is powf(v * (1.0f / 255.0f), GAMMA) to the   *)
(* nearest unit.  EncodeThresholdTable[k] is the least number of units t   *)
(* with 255.0f * powf(t, 1.0f / GAMMA) + 0.5f >= k, for k = 1 .. 256, so   *)
(* that gamma_encode(x) is the number of thresholds that x has reached.    *)
(***************************************************************************)
LutUnit == 16777216

LutTable ==
    <<0, 85, 391, 955, 1798, 2938, 4388, 6160,
      8263, 10707, 13500, 16649, 20162, 24044, 28302, 32941,
      37966, 43383, 49196, 55410, 62029, 69058, 76500, 84359,
      92640, 101344, 110477, 120042, 130041, 140478, 151356, 162677,
      174446, 186665, 199336, 212462, 226046, 240091, 254598, 269571,
      285012, 300923, 317307, 334166, 351502, 369317, 387613, 406394,
      425659, 445413, 465656, 486391, 507620, 529345, 551566, 574288,
      597510, 621235, 645466, 670202, 695447, 721202, 747469, 774249,
      801544, 829356, 857686, 886535, 915906, 945800, 976219, 1007163,
      1038635, 1070636, 1103167, 1136230, 1169826, 1203957, 1238624, 1273829,
      1309572, 1345856, 1382681, 1420049, 1457961, 1496419, 1535423, 1574976,
      1615078, 1655730, 1696934, 1738692, 1781003, 1823870, 1867294, 1911276,
      1955817, 2000918, 2046581, 2092806, 2139595, 2186949, 2234868, 2283355,
      2332410, 2382034, 2432229, 2482995, 2534334, 2586246, 2638733, 2691796,
      2745435, 2799653, 2854449, 2909825, 2965781, 3022320, 3079442, 3137147,
      3195437, 3254313, 3313776, 3373827, 3434466, 3495695, 3557515, 3619926,
      3682930, 3746527, 3810719, 3875506, 3940889, 4006869, 4073447, 4140624,
      4208401, 4276779, 4345758, 4415339, 4485524, 4556313, 4627707, 4699707,
      4772314, 4845528, 4919351, 4993783, 5068825, 5144478, 5220743, 5297620,
      5375111, 5453216, 5531936, 5611271, 5691224, 5771793, 5852981, 5934788,
      6017214, 6100261, 6183930, 6268220, 6353134, 6438670, 6524832, 6611618,
      6699030, 6787069, 6875735, 6965030, 7054953, 7145505, 7236688, 7328502,
      7420948, 7514026, 7607738, 7702083, 7797063, 7892678, 7988929, 8085817,
      8183342, 8281506, 8380308, 8479750, 8579832, 8680555, 8781919, 8883926,
      8986577, 9089870, 9193807, 9298389, 9403617, 9509491, 9616012, 9723181,
      9830997, 9939463, 10048578, 10158343, 10268759, 10379826, 10491545, 10603917,
      10716943, 10830622, 10944956, 11059945, 11175590, 11291892, 11408850, 11526466,
      11644741, 11763674, 11883267, 12003520, 12124434, 12246009, 12368246, 12491146,
      12614708, 12738935, 12863825, 12989381, 13115602, 13242489, 13370043, 13498264,
      13627153, 13756710, 13886937, 14017832, 14149398, 14281635, 14414543, 14548122,
      14682374, 14817299, 14952898, 15089170, 15226118, 15363740, 15502038, 15641012,
      15780663, 15920992, 16061998, 16203683, 16346047, 16489091, 16632814, 16777216>>

EncodeThresholdTable ==
    <<19, 208, 640, 1341, 2331, 3624, 5233, 7170,
      9442, 12060, 15030, 18360, 22057, 26126, 30574, 35405,
      40626, 46240, 52253, 58669, 65493, 72728, 80378, 88447,
      96939, 105858, 115206, 124987, 135205, 145862, 156961, 168506,
      180500, 192944, 205842, 219197, 233011, 247287, 262027, 277234,
      292909, 309057, 325677, 342774, 360350, 378405, 396943, 415966,
      435476, 455474, 475963, 496944, 518421, 540394, 562865, 585836,
      609310, 633288, 657771, 682762, 708261, 734272, 760795, 787833,
      815386, 843456, 872046, 901156, 930788, 960944, 991626, 1022834,
      1054570, 1086835, 1119632, 1152962, 1186825, 1221224, 1256160, 1291634,
      1327647, 1364201, 1401297, 1438937, 1477122, 1515853, 1555131, 1594958,
      1635335, 1676263, 1717744, 1759778, 1802368, 1845513, 1889216, 1933477,
      1978298, 2023679, 2069623, 2116130, 2163201, 2210838, 2259041, 2307811,
      2357151, 2407060, 2457541, 2508593, 2560218, 2612418, 2665192, 2718543,
      2772472, 2826978, 2882064, 2937730, 2993978, 3050808, 3108221, 3166219,
      3224802, 3283971, 3343728, 3404073, 3465007, 3526531, 3588647, 3651354,
      3714654, 3778549, 3843038, 3908123, 3973804, 4040083, 4106961, 4174438,
      4242515, 4311193, 4380473, 4450356, 4520843, 4591935, 4663632, 4735935,
      4808845, 4882363, 4956491, 5031228, 5106575, 5182534, 5259105, 5336289,
      5414086, 5492499, 5571526, 5651170, 5731431, 5812310, 5893807, 5975924,
      6058660, 6142018, 6225997, 6310599, 6395824, 6481673, 6568147, 6655246,
      6742971, 6831324, 6920304, 7009912, 7100150, 7191018, 7282516, 7374646,
      7467408, 7560803, 7654831, 7749493, 7844791, 7940724, 8037293, 8134500,
      8232344, 8330827, 8429949, 8529711, 8630113, 8731157, 8832842, 8935170,
      9038141, 9141756, 9246016, 9350921, 9456472, 9562669, 9669514, 9777006,
      9885147, 9993937, 10103377, 10213468, 10324209, 10435603, 10547648, 10660347,
      10773699, 10887706, 11002367, 11117684, 11233657, 11350287, 11467574, 11585520,
      11704123, 11823387, 11943309, 12063893, 12185137, 12307043, 12429611, 12552842,
      12676737, 12801295, 12926518, 13052407, 13178961, 13306181, 13434068, 13562623,
      13691846, 13821738, 13952299, 14083530, 14215431, 14348003, 14481247, 14615163,
      14749751, 14885013, 15020948, 15157558, 15294843, 15432803, 15571439, 15710751,
      15850741, 15991409, 16132754, 16274779, 16417482, 16560866, 16704929, 16849674>>

\* a / b < c / d for a, c >= 0 and b, d > 0, without forming the products.
RECURSIVE RatLess(_, _, _, _)
RatLess(a, b, c, d) ==
    IF a \div b # c \div d THEN a \div b < c \div d
    ELSE IF c % d = 0 THEN FALSE
    ELSE IF a % b = 0 THEN TRUE
    ELSE RatLess(d, c % d, b, a % b)

FLess(a, b) ==
    IF ~IsFinite(a) \/ ~IsFinite(b)
    THEN a # NaN /\ b # NaN /\ a # b /\ (a = NegInf \/ b = Inf)
    ELSE IF a[1] < 0 /\ b[1] >= 0 THEN TRUE
    ELSE IF a[1] >= 0 /\ b[1] < 0 THEN FALSE
    ELSE IF a[1] >= 0 THEN RatLess(a[1], a[2], b[1], b[2])
    ELSE RatLess(-b[1], b[2], -a[1], a[2])

\* gamma_decode_lut[v], the table being zeroed (static storage) or initialized.
LutRead(lut, v) ==
    IF lut = "initialized" THEN Rat(LutTable[v + 1], LutUnit) ELSE FInt(0)

\* x = v * (1.0f / 255.0f); return x * x
gamma_decode_fast(v) ==
    FMul(FMul(FInt(v), Rat(1, 255)), FMul(FInt(v), Rat(1, 255)))

\* An encode with the exponent of the fast approximation.
gamma_encode_sqrt(v, ub) ==
    IF ~IsFinite(v) \/ FLess(v, FInt(0)) THEN ub
    ELSE LET n == Cardinality({k \in 1..256 :
                                    ~FLess(v, Rat((2 * k - 1) * (2 * k - 1), 260100))})
         IN  IF n = 256 THEN ub ELSE n

\* (uint8_t) (255.0f * powf(v, gamma_rcp) + 0.5f); the conversion of a NaN, of an
\* infinity or of a value of 256 or more is undefined and yields ub.
gamma_encode(v, ub) ==
    IF ~IsFinite(v) \/ FLess(v, FInt(0)) THEN ub
    ELSE LET n == Cardinality({k \in 1..256 :
                                    ~FLess(v, Rat(EncodeThresholdTable[k], LutUnit))})
         IN  IF n = 256 THEN ub ELSE n

\* (uint8_t) (255.0f * sqrtf(v) + 0.5f): 255 * sqrt(v) + 1/2 >= k exactly when
\* v >= ((2k - 1) / 510)^2.
gamma_encode_fast(v, ub) ==
    IF ~IsFinite(v) \/ FLess(v, FInt(0)) THEN ub
    ELSE LET n == Cardinality({k \in 1..256 :
                                    ~FLess(v, Rat((2 * k - 1) * (2 * k - 1), 260100))})
         IN  IF n = 256 THEN ub ELSE n

\* The decode of img_gamma_decode_bitmap and the encode of
\* img_gamma_encode_to_bitmap, by mode.
\* A decode that looks the byte up in the table in both modes.
decode_sample_by_table(lut, v, fast_gamma) == LutRead(lut, v)

decode_sample(lut, v, fast_gamma) ==
    IF fast_gamma THEN gamma_decode_fast(v) ELSE LutRead(lut, v)

encode_sample(v, fast_gamma, ub) ==
    IF fast_gamma THEN gamma_encode_fast(v, ub) ELSE gamma_encode(v, ub)

(***************************************************************************)
(* The gamma functions on their own: every byte in both modes, decoded     *)
(* and encoded again.                                                      *)
(***************************************************************************)
InitGamma ==
    \E v \in 0..255, fast \in BOOLEAN :
        /\ pc = "gamma_input"
        /\ MainIdle
        /\ heap = <<>>
        /\ img = DeclaredImg
        /\ img2 = DeclaredImg
        /\ call = [op |-> "none", v |-> v, fast_gamma |-> fast, linear |-> NaN,
                   encoded |-> 0]

GammaInitLut ==
    /\ pc = "gamma_input"
    /\ ~call.fast_gamma
    /\ gamma_decode_lut = "zeroed"
    /\ gamma_decode_lut' = "initialized"
    /\ UNCHANGED <<pc, arguments, arg_num, argc, bitmap, heap, img, img2, main_src,
                   main_dst, pass_i, crop, cropped, resized, out, stages, call>>

GammaDecode ==
    /\ pc = "gamma_input"
    /\ call.fast_gamma \/ gamma_decode_lut = "initialized"
    /\ call' = [call EXCEPT !.op = "decode",
                            !.linear = decode_sample(gamma_decode_lut, call.v,
                                                     call.fast_gamma)]
    /\ pc' = "gamma_decoded"
    /\ UNCHANGED <<heap, img, img2, mainVars>>

GammaEncode ==
    /\ pc = "gamma_decoded"
    /\ \E ub \in {0, 255} :
        call' = [call EXCEPT !.op = "encode",
                             !.encoded = encode_sample(call.linear, call.fast_gamma, ub)]
    /\ pc' = "gamma_encoded"
    /\ UNCHANGED <<heap, img, img2, mainVars>>

NextGamma == GammaInitLut \/ GammaDecode \/ GammaEncode

SpecGamma == InitGamma /\ [][NextGamma]_vars

\* C6: for every byte v, encode(decode(v)) differs from v by at most 1, with
\* the exact pair and with the fast pair.
C6_EncodeDecodeRoundTrip ==
    pc = "gamma_encoded" =>
        /\ call.encoded - call.v <= 1
        /\ call.v - call.encoded <= 1

C6_Witness ==
    /\ pc = "gamma_encoded"
    /\ call.v = 128
    /\ ~call.fast_gamma
    /\ call.linear = Rat(LutTable[129], LutUnit)
    /\ call.encoded = 128

(***************************************************************************)
(* Strings and the C library's number parsers.  A string is a sequence of  *)
(* one-character strings; the character past its end is the terminator.   *)
(***************************************************************************)
NUL == ""

CharAt(str, k) == IF k \in 1..Len(str) THEN str[k] ELSE NUL

DigitChars == <<"0", "1", "2", "3", "4", "5", "6", "7", "8", "9">>

IsDigit(ch) == \E d \in 1..10 : DigitChars[d] = ch

DigitVal(ch) == (CHOOSE d \in 1..10 : DigitChars[d] = ch) - 1

\* The position after the digits that start at k.
RECURSIVE DigitsEnd(_, _)
DigitsEnd(str, k) == IF IsDigit(CharAt(str, k)) THEN DigitsEnd(str, k + 1) ELSE k

\* The value of the digits str[k .. e - 1], read after the value acc.
RECURSIVE DigitsVal(_, _, _, _)
DigitsVal(str, k, e, acc) ==
    IF k >= e THEN acc ELSE DigitsVal(str, k + 1, e, 10 * acc + DigitVal(str[k]))

RECURSIVE Pow10(_)
Pow10(k) == IF k = 0 THEN 1 ELSE 10 * Pow10(k - 1)

\* Where the digits of a number start: after an optional sign.
AfterSign(str, k) == IF CharAt(str, k) \in {"-", "+"} THEN k + 1 ELSE k

\* strtol(str + k - 1, &end, 10) on a string without leading white space:
\* an optional sign and decimal digits.  Without a digit nothing is converted:
\* the value is 0 and end is the start.
strtol(str, k) ==
    LET d == AfterSign(str, k)
        e == DigitsEnd(str, d)
        v == DigitsVal(str, d, e, 0)
    IN  IF e = d THEN [val |-> 0, end |-> k]
        ELSE [val |-> IF CharAt(str, k) = "-" THEN -v ELSE v, end |-> e]

\* strtof on a string without leading white space, for the decimal form
\* "digits", "digits.digits", ".digits" with an optional sign.
strtof(str, k) ==
    LET d  == AfterSign(str, k)
        e  == DigitsEnd(str, d)
        f  == IF CharAt(str, e) = "." THEN DigitsEnd(str, e + 1) ELSE e
        fd == IF f > e THEN f - e - 1 ELSE 0
        n  == DigitsVal(str, d, e, 0) * Pow10(fd)
                + (IF fd > 0 THEN DigitsVal(str, e + 1, f, 0) ELSE 0)
    IN  IF e = d /\ fd = 0 THEN [val |-> FInt(0), end |-> k]
        ELSE [val |-> Rat(IF CharAt(str, k) = "-" THEN -n ELSE n, Pow10(fd)), end |-> f]

\* strncmp(str + k - 1, lit, 3) != 0 for a literal of three characters.
strncmp3(str, k, lit) ==
    \E j \in 0..2 : CharAt(str, k + j) # lit[j + 1]

(***************************************************************************)
(* parse_geometry and parse_raw_format.                                    *)
(***************************************************************************)
parse_geometry(str, geom) ==
    LET w  == strtol(str, 1)
        g1 == [geom EXCEPT !.width = w.val]
        h  == strtol(str, w.end + 1)
        g2 == [g1 EXCEPT !.height = h.val]
        a  == strtof(str, h.end + 1)
    IN  IF w.end = 1 \/ CharAt(str, w.end) # "x" THEN [ret |-> 0, geom |-> g1]
        ELSE IF h.end = w.end + 1 THEN [ret |-> 0, geom |-> g2]
        ELSE IF CharAt(str, h.end) # "@" THEN [ret |-> 1, geom |-> g2]
        ELSE [ret  |-> IF a.end = h.end + 1 THEN 0 ELSE 1,
              geom |-> [g2 EXCEPT !.anchor = a.val]]

\* bool rgb = strncmp(str, "rgb", 3): true when str does NOT start with "rgb".
parse_raw_format(str, raw_fmt) ==
    LET w  == strtol(str, 1)
        f1 == [raw_fmt EXCEPT !.width = w.val]
        h  == strtol(str, w.end + 1)
        f2 == [f1 EXCEPT !.height = h.val]
        s0 == h.end + 1
        alpha_first == CharAt(str, s0) = "a"
        s  == IF alpha_first THEN s0 + 1 ELSE s0
        rgb == strncmp3(str, s, <<"r", "g", "b">>)
        bgr == strncmp3(str, s, <<"b", "g", "r">>)
        alpha_last == ~alpha_first /\ CharAt(str, s + 3) = "a"
    IN  IF w.end = 1 \/ CharAt(str, w.end) # "x" THEN [ret |-> 0, raw_fmt |-> f1]
        ELSE IF h.end = w.end + 1 \/ CharAt(str, h.end) # ":"
             THEN [ret |-> 0, raw_fmt |-> f2]
        ELSE IF ~rgb /\ ~bgr THEN [ret |-> 0, raw_fmt |-> f2]
        ELSE [ret |-> 1,
              raw_fmt |-> [f2 EXCEPT !.format =
                  IF alpha_first THEN (IF rgb THEN "FORMAT_ARGB" ELSE "FORMAT_ABGR")
                  ELSE IF alpha_last THEN (IF rgb THEN "FORMAT_RGBA" ELSE "FORMAT_BGRA")
                  ELSE (IF rgb THEN "FORMAT_RGB" ELSE "FORMAT_BGR")]]

(***************************************************************************)
(* main, part 1: argp_parse.  Each step hands parse_opt one item of the    *)
(* command line; argp_error and argp_usage print and exit.                 *)
(***************************************************************************)
MaxArgc == 3

\* The arguments tried for -z, -p, -r and --raw.
SizeArgs == {<<"1">>, <<"3">>, <<"2">>, <<"0">>, <<"-", "3">>, <<"z">>}

CountArgs == {<<"1">>, <<"2">>, <<"0">>, <<"-", "1">>, <<>>}

GeometryArgs ==
    {<<"2", "x", "2">>,
     <<"1", "x", "2", "@", "0", ".", "5">>,
     <<"0", "x", "2">>,
     <<"2", "x", "-", "1">>,
     <<"1", "x", "1", "@", "2">>,
     <<"1", "x", "1", "z">>,
     <<"2", "x">>,
     <<"x", "2">>,
     <<"2", "x", "2", "@">>}

RawArgs ==
    {<<"1", "x", "1", ":", "r", "g", "b">>,
     <<"2", "x", "1", ":", "b", "g", "r">>,
     <<"1", "x", "2", ":", "r", "g", "b", "a">>,
     <<"1", "x", "1", ":", "b", "g", "r", "a">>,
     <<"1", "x", "1", ":", "a", "r", "g", "b">>,
     <<"1", "x", "1", ":", "a", "b", "g", "r">>,
     <<"1", "x", "1", ":", "x", "y", "z">>,
     <<"0", "x", "1", ":", "r", "g", "b">>,
     <<"1", "x", "1">>}

NoParse == [op |-> "none", key |-> "none", arg |-> <<>>, value |-> 0, ret |-> 0]

Init ==
    /\ pc = "argp_parse"
    /\ arguments = DefaultArguments
    /\ arg_num = 0
    /\ argc = 0
    /\ gamma_decode_lut = "zeroed"
    /\ bitmap = NoBitmap
    /\ heap = <<>>
    /\ img = DeclaredImg
    /\ img2 = DeclaredImg
    /\ main_src = "img"
    /\ main_dst = "img2"
    /\ pass_i = 0
    /\ crop = NoCrop
    /\ cropped = DeclaredImg
    /\ resized = DeclaredImg
    /\ out = <<>>
    /\ stages = <<>>
    /\ call = NoParse

\* What parse_opt leaves alone.
runVars == <<gamma_decode_lut, bitmap, heap, img, img2, main_src, main_dst, pass_i,
             crop, cropped, resized, out, stages>>

NextItem ==
    /\ pc = "argp_parse"
    /\ argc < MaxArgc
    /\ argc' = argc + 1

\* case 'G'
ParseFastGamma ==
    /\ NextItem
    /\ arguments' = [arguments EXCEPT !.fast_gamma = TRUE]
    /\ call' = [NoParse EXCEPT !.op = "parse_opt", !.key = "G"]
    /\ UNCHANGED <<pc, arg_num, runVars>>

\* A test of the size that lets every positive size through.
size_is_invalid_no_parity(end, size) == end = 1 \/ size < 1

\* The test of case 'z': end == arg || size < 1, then size % 2 == 0.
size_is_invalid(end, size) == end = 1 \/ size < 1 \/ size % 2 = 0

\* case 'z'
ParseBlurSize ==
    /\ NextItem
    /\ \E arg \in SizeArgs :
        LET r == strtol(arg, 1)
            size == r.val
        IN  /\ call' = [NoParse EXCEPT !.op = "parse_opt", !.key = "z", !.arg = arg,
                                       !.value = size]
            /\ IF size_is_invalid(r.end, size)
               THEN /\ pc' = "exit_failure"
                    /\ UNCHANGED arguments
               ELSE /\ arguments' = [arguments EXCEPT !.blur_size = size]
                    /\ UNCHANGED pc
    /\ UNCHANGED <<arg_num, runVars>>

\* A test of the count that lets a count of 0 through.
count_is_invalid_negative(end, passes) == end = 1 \/ passes < 0

\* The test of case 'p': end == arg || passes < 1.
count_is_invalid(end, passes) == end = 1 \/ passes < 1

\* case 'p': strtoul takes a sign too, and the conversion to int gives back the
\* signed value.
ParseBlurPasses ==
    /\ NextItem
    /\ \E arg \in CountArgs :
        LET r == strtol(arg, 1)
            passes == r.val
        IN  /\ call' = [NoParse EXCEPT !.op = "parse_opt", !.key = "p", !.arg = arg,
                                       !.value = passes]
            /\ IF count_is_invalid(r.end, passes)
               THEN /\ pc' = "exit_failure"
                    /\ UNCHANGED arguments
               ELSE /\ arguments' = [arguments EXCEPT !.blur_passes = passes]
                    /\ UNCHANGED pc
    /\ UNCHANGED <<arg_num, runVars>>

\* case 'r'
ParseResize ==
    /\ NextItem
    /\ \E arg \in GeometryArgs :
        LET r == parse_geometry(arg, arguments.geom)
        IN  /\ call' = [NoParse EXCEPT !.op = "parse_geometry", !.key = "r",
                                       !.arg = arg, !.ret = r.ret]
            /\ arguments' = [arguments EXCEPT !.crop_mode = "CROP_FILL", !.geom = r.geom]
            /\ pc' = IF r.ret = 0 THEN "exit_failure" ELSE pc
    /\ UNCHANGED <<arg_num, runVars>>

\* case 0x100
ParseRaw ==
    /\ NextItem
    /\ \E arg \in RawArgs :
        LET r == parse_raw_format(arg, arguments.raw_fmt)
        IN  /\ call' = [NoParse EXCEPT !.op = "parse_raw_format", !.key = "raw",
                                       !.arg = arg, !.ret = r.ret]
            /\ IF r.ret = 0
               THEN /\ arguments' = [arguments EXCEPT !.raw_fmt = r.raw_fmt]
                    /\ pc' = "exit_failure"
               ELSE /\ arguments' = [arguments EXCEPT !.raw_fmt = r.raw_fmt,
                                                      !.raw_image = TRUE]
                    /\ UNCHANGED pc
    /\ UNCHANGED <<arg_num, runVars>>

\* case ARGP_KEY_ARG
ParseFile ==
    /\ NextItem
    /\ call' = [NoParse EXCEPT !.op = "parse_opt", !.key = "ARG"]
    /\ IF arg_num = 0
       THEN /\ arguments' = [arguments EXCEPT !.input_file = "input"]
            /\ UNCHANGED pc
       ELSE IF arg_num = 1
       THEN /\ arguments' = [arguments EXCEPT !.output_file = "output"]
            /\ UNCHANGED pc
       ELSE /\ pc' = "exit_failure"
            /\ UNCHANGED arguments
    /\ arg_num' = arg_num + 1
    /\ UNCHANGED runVars

\* case ARGP_KEY_END, and the return of argp_parse to main.
ParseEnd ==
    /\ pc = "argp_parse"
    /\ call' = [NoParse EXCEPT !.op = "parse_opt", !.key = "END"]
    /\ pc' = IF arg_num < 1 THEN "exit_failure" ELSE "init_lut"
    /\ UNCHANGED <<arguments, arg_num, argc, runVars>>

Parse ==
    \/ ParseFastGamma
    \/ ParseBlurSize
    \/ ParseBlurPasses
    \/ ParseResize
    \/ ParseRaw
    \/ ParseFile
    \/ ParseEnd

(***************************************************************************)
(* Decoding a bitmap into an image, and encoding an image into a bitmap.   *)
(***************************************************************************)
\* for (c = ..; c < 3; c++) img->pixels[i + c] = decode(bitmap[i + offset[c]])
RECURSIVE decode_px(_, _, _, _, _, _, _, _)
decode_px(h, im, bytes, offset, k, c, fast_gamma, lut) ==
    IF c >= 3 THEN h
    ELSE decode_px(
            Store(h, im.pixels, k + c,
                  decode_sample(lut, bytes[k + offset[c + 1] + 1], fast_gamma)),
            im, bytes, offset, k, c + 1, fast_gamma, lut)

\* for (i = ..; i < img_size; i += pixel_size) ...
RECURSIVE decode_loop(_, _, _, _, _, _, _, _, _)
decode_loop(h, im, bytes, offset, k, pixel_size, img_size, fast_gamma, lut) ==
    IF k >= img_size THEN h
    ELSE LET h1 == decode_px(h, im, bytes, offset, k, 0, fast_gamma, lut)
         IN  IF h1 = h
             THEN decode_loop(h, im, bytes, offset, k + pixel_size, pixel_size,
                              img_size, fast_gamma, lut)
             ELSE decode_loop(h1, im, bytes, offset, k + pixel_size, pixel_size,
                              img_size, fast_gamma, lut)

img_gamma_decode_bitmap(h, im, bytes, fmt, fast_gamma, lut) ==
    LET r == img_init(h, im, fmt.width, fmt.height)
        pixel_size == pixel_format_size[fmt.format]
    IN  [heap |-> decode_loop(r.heap, r.img, bytes, pixel_format_rgb_offset[fmt.format],
                              0, pixel_size, pixel_size * fmt.width * fmt.height,
                              fast_gamma, lut),
         img  |-> r.img]

\* out_row[i] = encode(row[i]) for the rows of the image, one after the other.
img_gamma_encode_to_bitmap(h, im, fast_gamma, g, ub) ==
    [k \in 1..(3 * im.width * im.height) |->
        encode_sample(Load(h, im.pixels,
                           im.stride * ((k - 1) \div (3 * im.width))
                               + ((k - 1) % (3 * im.width)), g),
                      fast_gamma, ub)]

(***************************************************************************)
(* The fill crop, img_crop and img_interp_nearest.                         *)
(***************************************************************************)
Half == <<1, 2>>

\* a / b for finite a and b.
FDiv(a, b) ==
    IF b[1] = 0 THEN (IF a[1] = 0 THEN NaN ELSE IF a[1] > 0 THEN Inf ELSE NegInf)
    ELSE IF b[1] > 0 THEN FMul(a, <<b[2], b[1]>>)
    ELSE FMul(a, <<-b[2], -b[1]>>)

\* (int) a for a finite a: the fraction is dropped.
FToInt(a) == IF a[1] >= 0 THEN a[1] \div a[2] ELSE -((-a[1]) \div a[2])

\* A fill crop that drops the fraction instead of rounding.
fill_crop_truncating(image_w, image_h, geom) ==
    LET crop_aspect_ratio == FDiv(FInt(geom.width), FInt(geom.height))
        img_aspect_ratio  == FDiv(FInt(image_w), FInt(image_h))
        crop_h == FToInt(FDiv(FInt(image_w), crop_aspect_ratio))
        crop_w == FToInt(FMul(FInt(image_h), crop_aspect_ratio))
    IN  IF FLess(img_aspect_ratio, crop_aspect_ratio)
        THEN [crop_w |-> image_w, crop_h |-> crop_h, crop_x |-> 0,
              crop_y |-> FToInt(FAdd(FMul(geom.anchor, FInt(image_h - crop_h)), Half))]
        ELSE [crop_w |-> crop_w, crop_h |-> image_h,
              crop_x |-> FToInt(FAdd(FMul(geom.anchor, FInt(image_w - crop_w)), Half)),
              crop_y |-> 0]

\* A fill crop that takes the branches the other way round.
fill_crop_swapped(image_w, image_h, geom) ==
    LET crop_aspect_ratio == FDiv(FInt(geom.width), FInt(geom.height))
        img_aspect_ratio  == FDiv(FInt(image_w), FInt(image_h))
        crop_h == FToInt(FAdd(FDiv(FInt(image_w), crop_aspect_ratio), Half))
        crop_w == FToInt(FAdd(FMul(FInt(image_h), crop_aspect_ratio), Half))
    IN  IF FLess(crop_aspect_ratio, img_aspect_ratio)
        THEN [crop_w |-> image_w, crop_h |-> crop_h, crop_x |-> 0,
              crop_y |-> FToInt(FAdd(FMul(geom.anchor, FInt(image_h - crop_h)), Half))]
        ELSE [crop_w |-> crop_w, crop_h |-> image_h,
              crop_x |-> FToInt(FAdd(FMul(geom.anchor, FInt(image_w - crop_w)), Half)),
              crop_y |-> 0]

\* A fill crop that places the window by the anchor's complement.
fill_crop_mirrored(image_w, image_h, geom) ==
    LET crop_aspect_ratio == FDiv(FInt(geom.width), FInt(geom.height))
        img_aspect_ratio  == FDiv(FInt(image_w), FInt(image_h))
        crop_h == FToInt(FAdd(FDiv(FInt(image_w), crop_aspect_ratio), Half))
        crop_w == FToInt(FAdd(FMul(FInt(image_h), crop_aspect_ratio), Half))
        rest   == FSub(FInt(1), geom.anchor)
    IN  IF FLess(img_aspect_ratio, crop_aspect_ratio)
        THEN [crop_w |-> image_w, crop_h |-> crop_h, crop_x |-> 0,
              crop_y |-> FToInt(FAdd(FMul(rest, FInt(image_h - crop_h)), Half))]
        ELSE [crop_w |-> crop_w, crop_h |-> image_h,
              crop_x |-> FToInt(FAdd(FMul(rest, FInt(image_w - crop_w)), Half)),
              crop_y |-> 0]

\* main's crop_w, crop_h, crop_x, crop_y for a geometry of positive size.
fill_crop(image_w, image_h, geom) ==
    LET crop_aspect_ratio == FDiv(FInt(geom.width), FInt(geom.height))
        img_aspect_ratio  == FDiv(FInt(image_w), FInt(image_h))
        crop_h == FToInt(FAdd(FDiv(FInt(image_w), crop_aspect_ratio), Half))
        crop_w == FToInt(FAdd(FMul(FInt(image_h), crop_aspect_ratio), Half))
    IN  IF FLess(img_aspect_ratio, crop_aspect_ratio)
        THEN [crop_w |-> image_w, crop_h |-> crop_h, crop_x |-> 0,
              crop_y |-> FToInt(FAdd(FMul(geom.anchor, FInt(image_h - crop_h)), Half))]
        ELSE [crop_w |-> crop_w, crop_h |-> image_h,
              crop_x |-> FToInt(FAdd(FMul(geom.anchor, FInt(image_w - crop_w)), Half)),
              crop_y |-> 0]

img_crop(im, w, hgt, x, y) ==
    [width |-> w, height |-> hgt, stride |-> im.stride, owner |-> FALSE,
     alloc_size |-> 0,
     pixels |-> [blk |-> im.pixels.blk, off |-> im.pixels.off + y * im.stride + 3 * x]]

\* int x_src = x * src->width * dst_width_rcp + 0.5, and the same for y.
interp_src(x, src_size, dst_size) ==
    FToInt(FAdd(FMul(FInt(x * src_size), FDiv(FInt(1), FInt(dst_size))), Half))

\* The destination is a fresh block, so each of its samples is written once,
\* from the source as it was when the call was made.
img_interp_nearest(h, im, width, height, g) ==
    LET r == img_init(h, DeclaredImg, width, height)
        d == r.img
    IN  [heap |-> [r.heap EXCEPT ![d.pixels.blk].cells =
            [k \in 0..(3 * width * height - 1) |->
                LET y == k \div (3 * width)
                    x == (k % (3 * width)) \div 3
                    c == k % 3
                IN  Load(h, im.pixels,
                         im.stride * interp_src(y, im.height, height)
                             + 3 * interp_src(x, im.width, width) + c, g)]],
         img  |-> d]

(***************************************************************************)
(* main, part 2: from the return of argp_parse to the written file.        *)
(***************************************************************************)
\* The contents tried for the input file.
BitmapPatterns == {"gray", "impulse"}

\* Byte k of a file of the pattern, its pixels being pixel_size bytes each.
PatternByte(pattern, k, pixel_size) ==
    CASE pattern = "gray"    -> 128
      [] pattern = "impulse" -> (IF k < pixel_size THEN 255 ELSE 0)

PatternBytes(pattern, pixel_size, w, hgt) ==
    [k \in 1..(pixel_size * w * hgt) |-> PatternByte(pattern, k - 1, pixel_size)]

\* src and dst of main.
Deref(name) == IF name = "img" THEN img ELSE img2

\* *dst = im
AssignDst(im) ==
    /\ img'  = IF main_dst = "img"  THEN im ELSE img
    /\ img2' = IF main_dst = "img2" THEN im ELSE img2

\* One call, as the log keeps it: the buffers it reads and writes, the kernel
\* size if it has one, and the width and height of what it wrote.
Stage(op, s, d, n, w, hgt) ==
    [op |-> op, src |-> s, dst |-> d, n |-> n, width |-> w, height |-> hgt]

AfterLoad == IF arguments.crop_mode = "CROP_FILL" THEN "resize_crop" ELSE "init_img2"

\* if (!arguments.fast_gamma) init_gamma_decode_lut();
InitLut ==
    /\ pc = "init_lut"
    /\ gamma_decode_lut' = IF arguments.fast_gamma THEN gamma_decode_lut ELSE "initialized"
    /\ pc' = "load"
    /\ stages' = IF arguments.fast_gamma THEN stages
                  ELSE Append(stages, Stage("init_gamma_decode_lut", "none",
                                            "gamma_decode_lut", 0, 0, 0))
    /\ UNCHANGED <<arguments, arg_num, argc, bitmap, heap, img, img2, main_src, main_dst,
                   pass_i, crop, cropped, resized, out, call>>

\* img_load: stbi_load gives a bitmap of three bytes per pixel.  The file is
\* of the smallest or of the largest width, and of the smallest or of the
\* largest height.
LoadImage ==
    /\ pc = "load"
    /\ ~arguments.raw_image
    /\ \E w \in {1, MaxW}, hgt \in {1, MaxH}, pattern \in BitmapPatterns :
        LET format == [format |-> "FORMAT_RGB", width |-> w, height |-> hgt]
            bytes  == PatternBytes(pattern, 3, w, hgt)
            r == img_gamma_decode_bitmap(heap, img, bytes, format, arguments.fast_gamma,
                                         gamma_decode_lut)
        IN  /\ bitmap' = [width |-> w, height |-> hgt, format |-> "FORMAT_RGB",
                          bytes |-> bytes]
            /\ heap' = r.heap
            /\ img' = r.img
            /\ stages' = Append(stages, Stage("img_gamma_decode_bitmap", "bitmap", "img",
                                              0, w, hgt))
    /\ pc' = AfterLoad
    /\ UNCHANGED <<arguments, arg_num, argc, gamma_decode_lut, img2, main_src, main_dst,
                   pass_i, crop, cropped, resized, out, call>>

\* img_load_raw on a file that holds the raw_img_size bytes, for a format of
\* positive width and height.
LoadRaw ==
    /\ pc = "load"
    /\ arguments.raw_image
    /\ arguments.raw_fmt.width > 0
    /\ arguments.raw_fmt.height > 0
    /\ \E pattern \in BitmapPatterns :
        LET fmt   == arguments.raw_fmt
            bytes == PatternBytes(pattern, pixel_format_size[fmt.format],
                                  fmt.width, fmt.height)
            r == img_gamma_decode_bitmap(heap, img, bytes, fmt, arguments.fast_gamma,
                                         gamma_decode_lut)
        IN  /\ bitmap' = [width |-> fmt.width, height |-> fmt.height,
                          format |-> fmt.format, bytes |-> bytes]
            /\ heap' = r.heap
            /\ img' = r.img
            /\ stages' = Append(stages, Stage("img_gamma_decode_bitmap", "bitmap", "img",
                                              0, fmt.width, fmt.height))
    /\ pc' = AfterLoad
    /\ UNCHANGED <<arguments, arg_num, argc, gamma_decode_lut, img2, main_src, main_dst,
                   pass_i, crop, cropped, resized, out, call>>

\* img_load_raw for a format of width or height 0 or less: the image has no
\* row or no column, and the filter writes the first pixel of rows that do not
\* exist.
LoadRawEmpty ==
    /\ pc = "load"
    /\ arguments.raw_image
    /\ arguments.raw_fmt.width <= 0 \/ arguments.raw_fmt.height <= 0
    /\ pc' = "undefined"
    /\ UNCHANGED <<arguments, arg_num, argc, gamma_decode_lut, bitmap, heap, img, img2,
                   main_src, main_dst, pass_i, crop, cropped, resized, out, call, stages>>

\* The file cannot be opened, is no image, or ends before the raw image does:
\* fmt_error_and_exit.
LoadFails ==
    /\ pc = "load"
    /\ pc' = "exit_failure"
    /\ UNCHANGED <<arguments, arg_num, argc, gamma_decode_lut, bitmap, heap, img, img2,
                   main_src, main_dst, pass_i, crop, cropped, resized, out, call, stages>>

GeometryIsPositive == arguments.geom.width > 0 /\ arguments.geom.height > 0

\* Lines 720-736: the crop rectangle and the cropped view.
ResizeCrop ==
    /\ pc = "resize_crop"
    /\ GeometryIsPositive
    /\ LET r == fill_crop(img.width, img.height, arguments.geom)
       IN  /\ crop' = r
           /\ cropped' = img_crop(img, r.crop_w, r.crop_h, r.crop_x, r.crop_y)
           /\ stages' = Append(stages, Stage("img_crop", "img", "cropped", 0,
                                             r.crop_w, r.crop_h))
    /\ call' = [NoCall EXCEPT !.op = "resize", !.width = img.width,
                              !.height = img.height]
    /\ pc' = "resize_interp"
    /\ UNCHANGED <<arguments, arg_num, argc, gamma_decode_lut, bitmap, heap, img, img2,
                   main_src, main_dst, pass_i, resized, out>>

\* The resize stage with a geometry of width or height 0 or less: the
\* reciprocals are infinite or negative and the resized image has no pixel.
ResizeDegenerate ==
    /\ pc = "resize_crop"
    /\ ~GeometryIsPositive
    /\ call' = [NoCall EXCEPT !.op = "resize", !.width = img.width,
                              !.height = img.height]
    /\ pc' = "undefined"
    /\ UNCHANGED <<arguments, arg_num, argc, gamma_decode_lut, bitmap, heap, img, img2,
                   main_src, main_dst, pass_i, crop, cropped, resized, out, stages>>

\* The resample made after free(img.pixels): the view is read when its source
\* is gone.
ResizeInterp_after_free ==
    /\ pc = "resize_interp"
    /\ \E g \in Indeterminate :
        LET r == img_interp_nearest(Free(heap, img.pixels), cropped,
                                    arguments.geom.width, arguments.geom.height, g)
        IN  /\ heap' = r.heap
            /\ resized' = r.img
            /\ stages' = Append(stages, Stage("img_interp_nearest", "cropped", "resized",
                                              0, r.img.width, r.img.height))
    /\ pc' = "resize_free"
    /\ UNCHANGED <<arguments, arg_num, argc, gamma_decode_lut, bitmap, img, img2,
                   main_src, main_dst, pass_i, crop, cropped, out, call>>

\* resized = img_interp_nearest(&cropped, geom.width, geom.height)
ResizeInterp ==
    /\ pc = "resize_interp"
    /\ \E g \in Indeterminate :
        LET r == img_interp_nearest(heap, cropped, arguments.geom.width,
                                    arguments.geom.height, g)
        IN  /\ heap' = r.heap
            /\ resized' = r.img
            /\ stages' = Append(stages, Stage("img_interp_nearest", "cropped", "resized",
                                              0, r.img.width, r.img.height))
    /\ pc' = "resize_free"
    /\ UNCHANGED <<arguments, arg_num, argc, gamma_decode_lut, bitmap, img, img2,
                   main_src, main_dst, pass_i, crop, cropped, out, call>>

\* free(img.pixels); img = resized;
ResizeAssign ==
    /\ pc = "resize_free"
    /\ heap' = Free(heap, img.pixels)
    /\ img' = resized
    /\ pc' = "init_img2"
    /\ stages' = stages \o <<Stage("free", "img", "none", 0, 0, 0),
                             Stage("assign", "resized", "img", 0,
                                   resized.width, resized.height)>>
    /\ UNCHANGED <<arguments, arg_num, argc, gamma_decode_lut, bitmap, img2,
                   main_src, main_dst, pass_i, crop, cropped, resized, out, call>>

\* main with dst = &img: every pass filters img into itself.
InitImg2_same_buffer ==
    /\ pc = "init_img2"
    /\ LET r == img_init(heap, img2, img.width, img.height)
       IN  /\ heap' = r.heap
           /\ img2' = r.img
           /\ stages' = Append(stages, Stage("img_init", "none", "img2", 0,
                                             r.img.width, r.img.height))
    /\ main_src' = "img"
    /\ main_dst' = "img"
    /\ pass_i' = 0
    /\ pc' = "hblur"
    /\ UNCHANGED <<arguments, arg_num, argc, gamma_decode_lut, bitmap, img, crop,
                   cropped, resized, out, call>>

\* img_init(&img2, img.width, img.height); src = &img; dst = &img2;
InitImg2 ==
    /\ pc = "init_img2"
    /\ LET r == img_init(heap, img2, img.width, img.height)
       IN  /\ heap' = r.heap
           /\ img2' = r.img
           /\ stages' = Append(stages, Stage("img_init", "none", "img2", 0,
                                             r.img.width, r.img.height))
    /\ main_src' = "img"
    /\ main_dst' = "img2"
    /\ pass_i' = 0
    /\ pc' = "hblur"
    /\ UNCHANGED <<arguments, arg_num, argc, gamma_decode_lut, bitmap, img, crop,
                   cropped, resized, out, call>>

\* One turn of a loop of passes: img_mov_avg_h(src, dst, blur_size);
\* PTR_SWAP(src, dst); i++
BlurPass ==
    /\ pass_i < arguments.blur_passes
    /\ \E g \in Indeterminate :
        LET r == img_mov_avg_h(heap, Deref(main_src), Deref(main_dst),
                               arguments.blur_size, g)
        IN  /\ heap' = r.heap
            /\ AssignDst(r.img)
            /\ stages' = Append(stages, Stage("img_mov_avg_h", main_src, main_dst,
                                              arguments.blur_size,
                                              r.img.width, r.img.height))
    /\ main_src' = main_dst
    /\ main_dst' = main_src
    /\ pass_i' = pass_i + 1
    /\ UNCHANGED <<pc, arguments, arg_num, argc, gamma_decode_lut, bitmap, crop,
                   cropped, resized, out, call>>

HBlur ==
    /\ pc = "hblur"
    /\ BlurPass

\* The end of the first loop; img_transpose(src, dst); PTR_SWAP(src, dst);
Transpose1 ==
    /\ pc = "hblur"
    /\ pass_i >= arguments.blur_passes
    /\ \E g \in Indeterminate :
        LET r == img_transpose(heap, Deref(main_src), Deref(main_dst), g)
        IN  /\ heap' = r.heap
            /\ AssignDst(r.img)
            /\ stages' = Append(stages, Stage("img_transpose", main_src, main_dst, 0,
                                              r.img.width, r.img.height))
    /\ main_src' = main_dst
    /\ main_dst' = main_src
    /\ pass_i' = 0
    /\ pc' = "vblur"
    /\ UNCHANGED <<arguments, arg_num, argc, gamma_decode_lut, bitmap, crop,
                   cropped, resized, out, call>>

VBlur ==
    /\ pc = "vblur"
    /\ BlurPass

\* A second transpose that swaps src and dst afterwards, as the first one does.
Transpose2_swapping ==
    /\ pc = "vblur"
    /\ pass_i >= arguments.blur_passes
    /\ \E g \in Indeterminate :
        LET r == img_transpose(heap, Deref(main_src), Deref(main_dst), g)
        IN  /\ heap' = r.heap
            /\ AssignDst(r.img)
            /\ stages' = Append(stages, Stage("img_transpose", main_src, main_dst, 0,
                                              r.img.width, r.img.height))
    /\ main_src' = main_dst
    /\ main_dst' = main_src
    /\ pc' = "save"
    /\ UNCHANGED <<arguments, arg_num, argc, gamma_decode_lut, bitmap, pass_i, crop,
                   cropped, resized, out, call>>

\* The end of the second loop; img_transpose(src, dst);
Transpose2 ==
    /\ pc = "vblur"
    /\ pass_i >= arguments.blur_passes
    /\ \E g \in Indeterminate :
        LET r == img_transpose(heap, Deref(main_src), Deref(main_dst), g)
        IN  /\ heap' = r.heap
            /\ AssignDst(r.img)
            /\ stages' = Append(stages, Stage("img_transpose", main_src, main_dst, 0,
                                              r.img.width, r.img.height))
    /\ pc' = "save"
    /\ UNCHANGED <<arguments, arg_num, argc, gamma_decode_lut, bitmap, main_src,
                   main_dst, pass_i, crop, cropped, resized, out, call>>

\* img_save_png(dst, arguments.output_file, arguments.fast_gamma) with an
\* output file that was named.
SavePng ==
    /\ pc = "save"
    /\ arguments.output_file # "indeterminate"
    /\ \E g \in Indeterminate, ub \in {0, 255} :
        out' = img_gamma_encode_to_bitmap(heap, Deref(main_dst), arguments.fast_gamma,
                                          g, ub)
    /\ pc' = "exit"
    /\ stages' = Append(stages, Stage("img_gamma_encode_to_bitmap", main_dst, "out", 0,
                                      Deref(main_dst).width, Deref(main_dst).height))
    /\ UNCHANGED <<arguments, arg_num, argc, gamma_decode_lut, bitmap, heap, img, img2,
                   main_src, main_dst, pass_i, crop, cropped, resized, call>>

\* img_save_png with the output_file that no argument set: the path is an
\* indeterminate pointer.
SaveNowhere ==
    /\ pc = "save"
    /\ arguments.output_file = "indeterminate"
    /\ pc' = "undefined"
    /\ UNCHANGED <<arguments, arg_num, argc, gamma_decode_lut, bitmap, heap, img, img2,
                   main_src, main_dst, pass_i, crop, cropped, resized, out, call, stages>>

Next ==
    \/ Parse
    \/ InitLut
    \/ LoadImage
    \/ LoadRaw
    \/ LoadRawEmpty
    \/ LoadFails
    \/ ResizeCrop
    \/ ResizeDegenerate
    \/ ResizeInterp
    \/ ResizeAssign
    \/ InitImg2
    \/ HBlur
    \/ Transpose1
    \/ VBlur
    \/ Transpose2
    \/ SavePng
    \/ SaveNowhere

Spec == Init /\ [][Next]_vars

(***************************************************************************)
(* The resize stage on its own: main at line 717 with a decoded image and  *)
(* a geometry of positive size and an anchor between 0 and 1.              *)
(***************************************************************************)
MaxImage == 4
MaxTarget == 3

Anchors == {FInt(0), Rat(1, 4), Half, Rat(2, 3), FInt(1)}

\* The resize of a 100x50 image to 40x40, anchor 0.5.
ScenarioResize == [image_w |-> 100, image_h |-> 50,
                   geom |-> [width |-> 40, height |-> 40, anchor |-> Half]]

ResizeCases ==
    {[image_w |-> w, image_h |-> hgt, geom |-> [width |-> tw, height |-> th, anchor |-> a]] :
        w \in 1..MaxImage, hgt \in 1..MaxImage, tw \in 1..MaxTarget, th \in 1..MaxTarget,
        a \in Anchors}
    \cup {ScenarioResize}

\* Byte k of the input file.
RampByte(k) == k % 256

\* What img_gamma_decode_bitmap leaves of an RGB bitmap of the bytes RampByte.
DecodedRamp(w, hgt) ==
    LET r == img_init(<<>>, DeclaredImg, w, hgt)
    IN  [heap |-> [r.heap EXCEPT ![r.img.pixels.blk].cells =
                        [k \in 0..(3 * w * hgt - 1) |->
                            decode_sample("initialized", RampByte(k), FALSE)]],
         img  |-> r.img]

InitGeom ==
    \E s \in ResizeCases :
        LET a == DecodedRamp(s.image_w, s.image_h)
        IN  /\ pc = "resize_crop"
            /\ arguments = [DefaultArguments EXCEPT !.input_file = "input",
                                                    !.output_file = "output",
                                                    !.crop_mode = "CROP_FILL",
                                                    !.geom = s.geom]
            /\ arg_num = 2
            /\ argc = 3
            /\ gamma_decode_lut = "initialized"
            /\ bitmap = [width |-> s.image_w, height |-> s.image_h,
                         format |-> "FORMAT_RGB",
                         bytes |-> [k \in 1..(3 * s.image_w * s.image_h) |->
                                        RampByte(k - 1)]]
            /\ heap = a.heap
            /\ img = a.img
            /\ img2 = DeclaredImg
            /\ main_src = "img"
            /\ main_dst = "img2"
            /\ pass_i = 0
            /\ crop = NoCrop
            /\ cropped = DeclaredImg
            /\ resized = DeclaredImg
            /\ out = <<>>
            /\ stages = <<Stage("init_gamma_decode_lut", "none", "gamma_decode_lut", 0, 0, 0),
                          Stage("img_gamma_decode_bitmap", "bitmap", "img", 0,
                                s.image_w, s.image_h)>>
            /\ call = [NoParse EXCEPT !.op = "parse_opt", !.key = "END"]

NextGeom == ResizeCrop \/ ResizeInterp \/ ResizeAssign

SpecGeom == InitGeom /\ [][NextGeom]_vars

\* The geometry is one the resize stage is specified for.
GeometryInContract ==
    /\ arguments.geom.width >= 1
    /\ arguments.geom.height >= 1
    /\ IsFinite(arguments.geom.anchor)
    /\ ~FLess(arguments.geom.anchor, FInt(0))
    /\ ~FLess(FInt(1), arguments.geom.anchor)

\* The crop rectangle of the resize of an image of 1x1 or more is computed.
CropComputed ==
    /\ call.op = "resize"
    /\ call.width >= 1
    /\ call.height >= 1
    /\ GeometryInContract

\* C3: for every image size, target size (all at least 1) and anchor in [0, 1]
\* the fill-crop rectangle lies within the source image: crop_x >= 0,
\* crop_y >= 0, crop_x + crop_w <= image_w and crop_y + crop_h <= image_h.
C3_FillCropWithinImage ==
    CropComputed =>
        /\ 0 <= crop.crop_x
        /\ 0 <= crop.crop_y
        /\ crop.crop_x + crop.crop_w <= call.width
        /\ crop.crop_y + crop.crop_h <= call.height

\* A crop that is narrower than the image and pushed to its right edge.
C3_Witness ==
    /\ CropComputed
    /\ pc = "resize_interp"
    /\ crop.crop_x > 0
    /\ crop.crop_w > 0
    /\ crop.crop_x + crop.crop_w = call.width

\* C4: the fill-crop rectangle has the target aspect ratio up to the rounding
\* of one dimension: crop_w is image_w and crop_h is within 0.5 of
\* image_w * target_h / target_w, which is no more than image_h; or crop_h is
\* image_h and crop_w is within 0.5 of image_h * target_w / target_h, which is
\* no more than image_w.
C4_FillCropHasTargetAspect ==
    CropComputed =>
        LET tw == arguments.geom.width
            th == arguments.geom.height
        IN  \/ /\ crop.crop_w = call.width
               /\ 2 * Abs(crop.crop_h * tw - call.width * th) <= tw
               /\ call.width * th <= call.height * tw
            \/ /\ crop.crop_h = call.height
               /\ 2 * Abs(crop.crop_w * th - call.height * tw) <= th
               /\ call.height * tw <= call.width * th

\* A crop whose shrunk dimension was rounded up from a fraction.
C4_Witness ==
    /\ CropComputed
    /\ pc = "resize_interp"
    /\ crop.crop_h = call.height
    /\ crop.crop_w < call.width
    /\ crop.crop_w * arguments.geom.height > call.height * arguments.geom.width

\* n / d rounded to the nearest integer, halves upwards, for n >= 0 and d > 0.
RoundDiv(n, d) == (2 * n + d) \div (2 * d)

\* C7: the resize of a 100x50 image to 40x40 with anchor 0.5 has crop_w = 50,
\* crop_h = 50, crop_x = 25, crop_y = 0 and yields a 40x40 buffer; in general,
\* when the target is not wider than the image, crop_h = image_h, crop_y = 0,
\* crop_w = round(image_h * target_w / target_h) and
\* crop_x = round(anchor * (image_w - crop_w)), and when the target is wider,
\* crop_w = image_w, crop_x = 0, crop_h = round(image_w * target_h / target_w)
\* and crop_y = round(anchor * (image_h - crop_h)).
C7_FillResizeFormulas ==
    CropComputed =>
        LET tw == arguments.geom.width
            th == arguments.geom.height
            an == arguments.geom.anchor
        IN  /\ IF tw * call.height <= call.width * th
               THEN /\ crop.crop_h = call.height
                    /\ crop.crop_y = 0
                    /\ crop.crop_w = RoundDiv(call.height * tw, th)
                    /\ crop.crop_x = RoundDiv(an[1] * (call.width - crop.crop_w), an[2])
               ELSE /\ crop.crop_w = call.width
                    /\ crop.crop_x = 0
                    /\ crop.crop_h = RoundDiv(call.width * th, tw)
                    /\ crop.crop_y = RoundDiv(an[1] * (call.height - crop.crop_h), an[2])
            /\ (call.width = 100 /\ call.height = 50 /\ arguments.geom = ScenarioResize.geom)
                  => /\ crop = [crop_w |-> 50, crop_h |-> 50, crop_x |-> 25, crop_y |-> 0]
                     /\ pc = "init_img2" =>
                          /\ img.width = 40
                          /\ img.height = 40
                          /\ DOMAIN heap[img.pixels.blk].cells = 0..(3 * 40 * 40 - 1)
                          /\ \A k \in 0..(3 * 40 * 40 - 1) :
                                IsFinite(heap[img.pixels.blk].cells[k])

\* The 100x50 image was resized to 40x40.
C7_Witness ==
    /\ pc = "init_img2"
    /\ call.op = "resize"
    /\ call.width = 100
    /\ call.height = 50
    /\ arguments.geom = ScenarioResize.geom
    /\ img.width = 40
    /\ img.height = 40
    /\ crop.crop_x = 25

(***************************************************************************)
(* Properties of main.                                                     *)
(***************************************************************************)
\* The input is an image file of one colour that is blurred as it is.
ConstantInput ==
    /\ ~arguments.raw_image
    /\ arguments.crop_mode = "CROP_NONE"
    /\ bitmap.format = "FORMAT_RGB"
    /\ \A k \in DOMAIN bitmap.bytes : bitmap.bytes[k] = bitmap.bytes[1]

\* The image that the last step of the blur has put out.
BlurOutput == IF pc \in {"save", "exit"} THEN Deref(main_dst) ELSE Deref(main_src)

\* C5: a constant image is a fixed point of the blur: after the decode, after
\* each pass, after both transposes and at the end every sample of the image
\* is the decoded value v it started with.
C5_ConstantImageIsFixedPoint ==
    (pc \in {"hblur", "vblur", "save", "exit"} /\ ConstantInput) =>
        LET v == decode_sample(gamma_decode_lut, bitmap.bytes[1], arguments.fast_gamma)
            s == Samples(heap, BlurOutput)
        IN  \A k \in DOMAIN s : s[k] = v

\* The same for the runs whose kernel half-width is less than the width and
\* the height of the image.
ConstantImageWideRows ==
    (/\ pc \in {"hblur", "vblur", "save", "exit"}
     /\ ConstantInput
     /\ (arguments.blur_size - 1) \div 2 < bitmap.width
     /\ (arguments.blur_size - 1) \div 2 < bitmap.height) =>
        LET v == decode_sample(gamma_decode_lut, bitmap.bytes[1], arguments.fast_gamma)
            s == Samples(heap, BlurOutput)
        IN  \A k \in DOMAIN s : s[k] = v

\* Nothing was loaded, decoded, filtered or written.
NothingProcessed ==
    /\ gamma_decode_lut = "zeroed"
    /\ bitmap = NoBitmap
    /\ heap = <<>>
    /\ img = DeclaredImg
    /\ img2 = DeclaredImg
    /\ out = <<>>

\* C8: a kernel size that is even or less than 1, or a pass count less than 1,
\* is rejected while the arguments are parsed: the run ends with an error and
\* nothing was loaded, decoded, filtered or written; so a run that gets past
\* the parse has an odd kernel size of 1 or more and a pass count of 1 or more.
C8_BadSizeOrCountRejectedAtParse ==
    /\ (/\ call.op = "parse_opt"
        /\ \/ call.key = "z" /\ (call.value < 1 \/ call.value % 2 = 0)
           \/ call.key = "p" /\ call.value < 1)
          => (pc = "exit_failure" /\ NothingProcessed)
    /\ pc \notin {"argp_parse", "exit_failure"} =>
          /\ arguments.blur_size >= 1
          /\ arguments.blur_size % 2 = 1
          /\ arguments.blur_passes >= 1

\* The run was given the kernel size 2.
C8_Witness ==
    /\ pc = "exit_failure"
    /\ call.op = "parse_opt"
    /\ call.key = "z"
    /\ call.value = 2
    /\ NothingProcessed

\* The LAYOUT of a descriptor "WxH:LAYOUT".
LayoutOf(arg) ==
    LET colon == CHOOSE k \in 1..Len(arg) : arg[k] = ":"
    IN  SubSeq(arg, colon + 1, Len(arg))

\* The tag that has the name of the layout.
LayoutTag(layout) ==
    CASE layout = <<"r", "g", "b">>      -> "FORMAT_RGB"
      [] layout = <<"r", "g", "b", "a">> -> "FORMAT_RGBA"
      [] layout = <<"a", "r", "g", "b">> -> "FORMAT_ARGB"
      [] layout = <<"b", "g", "r">>      -> "FORMAT_BGR"
      [] layout = <<"b", "g", "r", "a">> -> "FORMAT_BGRA"
      [] layout = <<"a", "b", "g", "r">> -> "FORMAT_ABGR"
      [] OTHER                           -> "none"

\* C9: parse_raw_format succeeds on "WxH:LAYOUT" exactly when LAYOUT is one of
\* rgb, rgba, argb, bgr, bgra, abgr, and then stores the tag of that name.
C9_RawFormatAcceptsTheSixLayouts ==
    (call.op = "parse_raw_format" /\ \E k \in 1..Len(call.arg) : call.arg[k] = ":") =>
        /\ (call.ret # 0) <=> (LayoutTag(LayoutOf(call.arg)) # "none")
        /\ call.ret # 0 => arguments.raw_fmt.format = LayoutTag(LayoutOf(call.arg))

\* C10: whenever the resize stage runs, the geometry has a width and a height
\* above 0 and an anchor between 0 and 1; a geometry string that gives anything
\* else is rejected by the parse.
C10_ResizeGetsValidGeometry ==
    /\ pc \in {"resize_crop", "resize_interp", "resize_free"} => GeometryInContract
    /\ (call.op = "parse_geometry" /\ call.ret # 0) => GeometryInContract

(***************************************************************************)
(* The order of main's stages.                                             *)
(***************************************************************************)
OtherBuffer(name) == IF name = "img" THEN "img2" ELSE "img"

\* The log of k passes of kernel n that start with src = s and dst = d.
RECURSIVE PassLog(_, _, _, _, _, _)
PassLog(s, d, n, k, w, hgt) ==
    IF k = 0 THEN <<>>
    ELSE <<Stage("img_mov_avg_h", s, d, n, w, hgt)>> \o PassLog(d, s, n, k - 1, w, hgt)

\* The buffer that k passes starting with src = s leave as src.
AfterPasses(s, k) == IF k % 2 = 0 THEN s ELSE OtherBuffer(s)

\* The order of stages of a run with the arguments and the input of this one.
ExpectedStages ==
    LET n   == arguments.blur_size
        k   == arguments.blur_passes
        fil == arguments.crop_mode = "CROP_FILL"
        w   == IF fil THEN arguments.geom.width ELSE bitmap.width
        hgt == IF fil THEN arguments.geom.height ELSE bitmap.height
        s1  == AfterPasses("img", k)
        s2  == AfterPasses(OtherBuffer(s1), k)
    IN  (IF arguments.fast_gamma THEN <<>>
         ELSE <<Stage("init_gamma_decode_lut", "none", "gamma_decode_lut", 0, 0, 0)>>)
        \o <<Stage("img_gamma_decode_bitmap", "bitmap", "img", 0,
                   bitmap.width, bitmap.height)>>
        \o (IF fil
            THEN <<Stage("img_crop", "img", "cropped", 0, crop.crop_w, crop.crop_h),
                   Stage("img_interp_nearest", "cropped", "resized", 0, w, hgt),
                   Stage("free", "img", "none", 0, 0, 0),
                   Stage("assign", "resized", "img", 0, w, hgt)>>
            ELSE <<>>)
        \o <<Stage("img_init", "none", "img2", 0, w, hgt)>>
        \o PassLog("img", "img2", n, k, w, hgt)
        \o <<Stage("img_transpose", s1, OtherBuffer(s1), 0, hgt, w)>>
        \o PassLog(OtherBuffer(s1), s1, n, k, hgt, w)
        \o <<Stage("img_transpose", s2, OtherBuffer(s2), 0, w, hgt)>>
        \o <<Stage("img_gamma_encode_to_bitmap", OtherBuffer(s2), "out", 0, w, hgt)>>

\* A stage that reads one of main's two buffers and writes the other or the output.
IsBufferStage(e) ==
    e.op \in {"img_mov_avg_h", "img_transpose", "img_gamma_encode_to_bitmap"}

\* C11: on a successful run the stages are, in this order, the decode, the
\* fill-resize if one was asked for, `passes` filter passes, a transpose,
\* `passes` filter passes, a transpose and the encode; every pass has the same
\* kernel size, every stage reads the buffer the stage before it wrote, and the
\* encoded buffer is the one the second transpose wrote, with the width and
\* height the image had before the first pass.
C11_StagesInOrder ==
    pc = "exit" =>
        LET b == SelectSeq(stages, IsBufferStage)
        IN  /\ stages = ExpectedStages
            /\ b[1].src = "img"
            /\ \A k \in 1..(Len(b) - 1) : b[k + 1].src = b[k].dst
            /\ \A k \in 1..Len(b) :
                  b[k].op = "img_mov_avg_h" => b[k].n = arguments.blur_size
            /\ Len(SelectSeq(b, LAMBDA e : e.op = "img_mov_avg_h"))
                  = 2 * arguments.blur_passes
            /\ Len(out) = 3 * b[1].width * b[1].height
            /\ Deref(b[Len(b)].src).width = b[1].width
            /\ Deref(b[Len(b)].src).height = b[1].height

\* A run of two passes per axis on an image that is wider than high has ended.
C11_Witness ==
    /\ pc = "exit"
    /\ arguments.blur_passes = 2
    /\ bitmap.width > bitmap.height
    /\ Len(stages) = 10

(***************************************************************************)
(* The passes of main's first loop on a row that holds one impulse, far    *)
(* enough from both ends of the row for the passes that are made.          *)
(***************************************************************************)
MaxRow == 9
MaxImpulsePasses == 4

ImpulseKernels == {3, 5}
ImpulseBytes == {255, 128}

\* A bitmap of one row, all 0 but for the pixel x0.
ImpulseRow(w, x0, byte) ==
    [k \in 1..(3 * w) |-> IF (k - 1) \div 3 = x0 THEN byte ELSE 0]

InitImpulse ==
    \E w \in 3..MaxRow, x0 \in 0..(MaxRow - 1), n \in ImpulseKernels,
       k \in 1..MaxImpulsePasses, byte \in ImpulseBytes :
        LET p == (n - 1) \div 2
            bytes == ImpulseRow(w, x0, byte)
            a == img_gamma_decode_bitmap(<<>>, DeclaredImg, bytes,
                     [format |-> "FORMAT_RGB", width |-> w, height |-> 1],
                     FALSE, "initialized")
            b == img_init(a.heap, DeclaredImg, w, 1)
        IN  /\ k * p <= x0
            /\ x0 + k * p <= w - 1
            /\ pc = "hblur"
            /\ arguments = [DefaultArguments EXCEPT !.input_file = "input",
                                                    !.output_file = "output",
                                                    !.blur_size = n,
                                                    !.blur_passes = k]
            /\ arg_num = 2
            /\ argc = 3
            /\ gamma_decode_lut = "initialized"
            /\ bitmap = [width |-> w, height |-> 1, format |-> "FORMAT_RGB",
                         bytes |-> bytes]
            /\ heap = b.heap
            /\ img = a.img
            /\ img2 = b.img
            /\ main_src = "img"
            /\ main_dst = "img2"
            /\ pass_i = 0
            /\ crop = NoCrop
            /\ cropped = DeclaredImg
            /\ resized = DeclaredImg
            /\ out = <<>>
            /\ stages = <<Stage("init_gamma_decode_lut", "none", "gamma_decode_lut", 0, 0, 0),
                          Stage("img_gamma_decode_bitmap", "bitmap", "img", 0, w, 1),
                          Stage("img_init", "none", "img2", 0, w, 1)>>
            /\ call = [NoParse EXCEPT !.op = "parse_opt", !.key = "END"]

NextImpulse == HBlur

SpecImpulse == InitImpulse /\ [][NextImpulse]_vars

\* x^j
RECURSIVE IntPow(_, _)
IntPow(x, j) == IF j = 0 THEN 1 ELSE x * IntPow(x, j - 1)

\* The sum of x^j * row[x] over the pixels 0..x of row 0, first channel.
RECURSIVE RowMoment(_, _, _, _)
RowMoment(h, im, x, j) ==
    IF x < 0 THEN FInt(0)
    ELSE FAdd(FMul(FInt(IntPow(x, j)), Load(h, im.pixels, RowCell(im, 0, x, 0), NaN)),
              RowMoment(h, im, x - 1, j))

RowSum(h, im) == RowMoment(h, im, im.width - 1, 0)

\* The second central moment of the row, taken as a distribution over x.
RowVariance(h, im) ==
    LET m0 == RowMoment(h, im, im.width - 1, 0)
        m1 == RowMoment(h, im, im.width - 1, 1)
        m2 == RowMoment(h, im, im.width - 1, 2)
        mean == FDiv(m1, m0)
    IN  FSub(FDiv(m2, m0), FMul(mean, mean))

\* C12: for a fixed odd kernel size n >= 3 and an impulse that the clamping
\* does not reach, each pass leaves the sum of the row as it was, and after
\* k + 1 passes the variance of the row is strictly larger than after k passes,
\* for every k >= 1.
C12_PassesWidenTheImpulse ==
    [][(pc = "hblur" /\ pass_i' = pass_i + 1) =>
          /\ RowSum(heap', Deref(main_src)') = RowSum(heap, Deref(main_src))
          /\ pass_i >= 1 =>
                FLess(RowVariance(heap, Deref(main_src)),
                      RowVariance(heap', Deref(main_src)'))]_vars

\* Three passes of kernel 3 were made: the variance is 3 * (3^2 - 1) / 12.
C12_Witness ==
    /\ pc = "hblur"
    /\ arguments.blur_size = 3
    /\ pass_i = 3
    /\ bitmap.height = 1
    /\ Cardinality({k \in DOMAIN bitmap.bytes : bitmap.bytes[k] # 0}) = 3
    /\ RowVariance(heap, Deref(main_src)) = FInt(2)

(***************************************************************************)
(* The two buffers of main's passes.                                       *)
(***************************************************************************)
\* The image *src of the call that a step from "hblur" or "vblur" makes, as
\* it is once the call has returned.
SrcAfterCall == IF main_src = "img" THEN img' ELSE img2'

\* The image *dst of that call once it has returned.
DstAfterCall == IF main_dst = "img" THEN img' ELSE img2'

\* A call that main makes from "hblur" or "vblur" has two buffers with two
\* storage blocks and returns with its source as it was.
CallKeepsSource ==
    pc \in {"hblur", "vblur"} =>
        /\ main_src # main_dst
        /\ Deref(main_src).pixels # NULL
        /\ Deref(main_src).pixels.blk # Deref(main_dst).pixels.blk
        /\ DstAfterCall.pixels.blk # Deref(main_src).pixels.blk
        /\ heap'[Deref(main_src).pixels.blk].live
        /\ SrcAfterCall = Deref(main_src)
        /\ Samples(heap', SrcAfterCall) = Samples(heap, Deref(main_src))

\* C13: at every call of img_mov_avg_h and img_transpose that main makes, src
\* and dst are two buffers with two storage blocks, whatever the number of
\* passes, and the call leaves the width, height, stride, storage and samples
\* of its source as they were.
C13_PingPongBuffersAreDistinct == [][CallKeepsSource]_vars

\* The second pass of the second loop is about to be made on an image that is
\* not square: img is the source and holds the transposed image.
C13_Witness ==
    /\ pc = "vblur"
    /\ pass_i = 1
    /\ arguments.blur_passes = 2
    /\ main_src = "img"
    /\ main_dst = "img2"
    /\ img.width = bitmap.height
    /\ img.width # img.height
    /\ img.pixels.blk # img2.pixels.blk

(***************************************************************************)
(* The calls that size a buffer, made in any order on two buffers: the     *)
(* call counter is pass_i, the call made last is in call.                  *)
(***************************************************************************)
MaxCalls == 2

BufferNames == {"img", "img2"}

\* The sizes a call is given: the smallest and the largest of each side.
BufferWidths == {1, MaxW}
BufferHeights == {1, MaxH}

\* *name = im
AssignBuffer(name, im) ==
    /\ img'  = IF name = "img"  THEN im ELSE img
    /\ img2' = IF name = "img2" THEN im ELSE img2

InitBuffers ==
    \E w \in BufferWidths, hgt \in BufferHeights :
        LET a == img_init(<<>>, DeclaredImg, w, hgt)
            b == img_init(a.heap, DeclaredImg, w, hgt)
        IN  /\ pc = "calls"
            /\ MainIdle
            /\ heap = b.heap
            /\ img = a.img
            /\ img2 = b.img
            /\ call = NoCall

BufferCall(op, n, w, hgt) ==
    /\ pc = "calls"
    /\ pass_i < MaxCalls
    /\ pass_i' = pass_i + 1
    /\ call' = [NoCall EXCEPT !.op = op, !.n = n, !.width = w, !.height = hgt]
    /\ UNCHANGED <<pc, arguments, arg_num, argc, gamma_decode_lut, bitmap,
                   main_src, main_dst, crop, out, stages>>

\* img_init(&img2, w, hgt): what img2 held is not freed.
BufferInit ==
    \E name \in {"img2"}, w \in BufferWidths, hgt \in BufferHeights :
        LET r == img_init(heap, Deref(name), w, hgt)
        IN  /\ BufferCall("img_init", 0, w, hgt)
            /\ heap' = r.heap
            /\ AssignBuffer(name, r.img)
            /\ UNCHANGED <<cropped, resized>>

BufferSetSize ==
    \E name \in BufferNames, w \in BufferWidths, hgt \in BufferHeights :
        LET r == img_set_size(heap, Deref(name), w, hgt)
        IN  /\ BufferCall("img_set_size", 0, w, hgt)
            /\ heap' = r.heap
            /\ AssignBuffer(name, r.img)
            /\ UNCHANGED <<cropped, resized>>

BufferMovAvg ==
    \E name \in BufferNames, n \in Kernels, g \in Indeterminate :
        LET r == img_mov_avg_h(heap, Deref(name), Deref(OtherBuffer(name)), n, g)
        IN  /\ BufferCall("img_mov_avg_h", n, r.img.width, r.img.height)
            /\ heap' = r.heap
            /\ AssignBuffer(OtherBuffer(name), r.img)
            /\ UNCHANGED <<cropped, resized>>

BufferTranspose ==
    \E name \in BufferNames, g \in Indeterminate :
        LET r == img_transpose(heap, Deref(name), Deref(OtherBuffer(name)), g)
        IN  /\ BufferCall("img_transpose", 0, r.img.width, r.img.height)
            /\ heap' = r.heap
            /\ AssignBuffer(OtherBuffer(name), r.img)
            /\ UNCHANGED <<cropped, resized>>

\* resized = img_interp_nearest(&img, w, hgt)
BufferInterp ==
    \E name \in {"img"}, w \in BufferWidths, hgt \in BufferHeights, g \in Indeterminate :
        LET r == img_interp_nearest(heap, Deref(name), w, hgt, g)
        IN  /\ BufferCall("img_interp_nearest", 0, w, hgt)
            /\ heap' = r.heap
            /\ resized' = r.img
            /\ UNCHANGED <<img, img2, cropped>>

\* cropped = img_crop(&img, w, hgt, x, y): the view of the last w columns and
\* the last hgt rows.
BufferCrop ==
    \E w \in {1, img.width}, hgt \in {1, img.height} :
        /\ BufferCall("img_crop", 0, w, hgt)
        /\ cropped' = img_crop(img, w, hgt, img.width - w, img.height - hgt)
        /\ UNCHANGED <<heap, img, img2, resized>>

NextBuffers ==
    \/ BufferInit
    \/ BufferSetSize
    \/ BufferMovAvg
    \/ BufferTranspose
    \/ BufferInterp
    \/ BufferCrop

SpecBuffers == InitBuffers /\ [][NextBuffers]_vars

\* The image owns live storage of at least stride * height floats and its
\* rows are 3 * width floats apart.
OwnsItsRows(h, im) ==
    /\ im.stride = 3 * im.width
    /\ im.pixels.blk \in 1..Len(h)
    /\ im.pixels.off = 0
    /\ h[im.pixels.blk].live
    /\ h[im.pixels.blk].cap >= im.stride * im.height

\* C14: after any sequence of img_init, img_set_size, img_mov_avg_h,
\* img_transpose and img_interp_nearest, every owning buffer has
\* stride = 3 * width and storage of at least stride * height floats, and a
\* crop view no wider than its source has stride >= 3 * width.
C14_StrideAndStorage ==
    /\ OwnsItsRows(heap, img)
    /\ OwnsItsRows(heap, img2)
    /\ resized.pixels # NULL => OwnsItsRows(heap, resized)
    /\ cropped.pixels # NULL => cropped.stride >= 3 * cropped.width

\* A buffer was shrunk in place and then took the result of a call: it kept
\* the larger block.
C14_Witness ==
    /\ pc = "calls"
    /\ pass_i = 2
    /\ call.op \in {"img_mov_avg_h", "img_transpose"}
    /\ img2.width * img2.height = 1
    /\ img2.alloc_size > SizeofFloat * 3
    /\ heap[img2.pixels.blk].cap > 3 * 3 * SizeofFloat

(***************************************************************************)
(* The gamma decode table in a run of main.                                *)
(***************************************************************************)
\* The places of the log where op was called.
StagesOf(op) == {k \in DOMAIN stages : stages[k].op = op}

\* The first byte of the bitmap that the decode reads: the red of pixel 0.
FirstRedByte == bitmap.bytes[pixel_format_rgb_offset[bitmap.format][1] + 1]

\* The places of main after line 708.
AfterInitLut ==
    {"load", "resize_crop", "resize_interp", "resize_free", "init_img2", "hblur",
     "vblur", "save", "exit", "undefined"}

\* Where the table stands at each point of a run, and what the decode made of
\* the first byte.
TableReadyBeforeDecode ==
    /\ arguments.fast_gamma =>
          /\ gamma_decode_lut = "zeroed"
          /\ StagesOf("init_gamma_decode_lut") = {}
    /\ (pc \in AfterInitLut /\ ~arguments.fast_gamma) =>
          /\ gamma_decode_lut = "initialized"
          /\ StagesOf("init_gamma_decode_lut") = {1}
    /\ \A k \in StagesOf("img_gamma_decode_bitmap") :
          ~arguments.fast_gamma => \E j \in StagesOf("init_gamma_decode_lut") : j < k
    /\ (stages # <<>> /\ stages[Len(stages)].op = "img_gamma_decode_bitmap") =>
          Load(heap, img.pixels, 0, NaN) =
              IF arguments.fast_gamma THEN gamma_decode_fast(FirstRedByte)
              ELSE Rat(LutTable[FirstRedByte + 1], LutUnit)

\* The table changes in one step only: the call of init_gamma_decode_lut, made
\* in exact mode on the table as the program started with, before any decode.
TableWrittenOnce ==
    gamma_decode_lut' # gamma_decode_lut =>
        /\ pc = "init_lut"
        /\ ~arguments.fast_gamma
        /\ gamma_decode_lut = "zeroed"
        /\ gamma_decode_lut' = "initialized"
        /\ StagesOf("img_gamma_decode_bitmap") = {}

\* C15: in exact mode init_gamma_decode_lut has written the whole table before
\* the decode step looks anything up, and the table is not written again; in
\* fast mode the table is left as it was and the decode does not read it.
C15_TableBuiltOnceBeforeDecode ==
    []TableReadyBeforeDecode /\ [][TableWrittenOnce]_vars

\* An exact-mode run has come to its end: the table was built first, the decode
\* came second.
C15_Witness ==
    /\ pc = "exit"
    /\ ~arguments.fast_gamma
    /\ gamma_decode_lut = "initialized"
    /\ stages[1].op = "init_gamma_decode_lut"
    /\ stages[2].op = "img_gamma_decode_bitmap"
    /\ out # <<>>

(***************************************************************************)
(* What img_gamma_decode_bitmap has stored, sample by sample.              *)
(***************************************************************************)
\* The decode was the last call made: img is as the decode left it.
JustDecoded == stages # <<>> /\ stages[Len(stages)].op = "img_gamma_decode_bitmap"

\* decode(bitmap[pixel_size * (width * y + x) + offset[c]])
DecodedByte(x, y, c) ==
    decode_sample(gamma_decode_lut,
                  bitmap.bytes[pixel_format_size[bitmap.format] * (bitmap.width * y + x)
                                   + pixel_format_rgb_offset[bitmap.format][c + 1] + 1],
                  arguments.fast_gamma)

SamplesAreDecodedBytes ==
    \A x \in 0..(bitmap.width - 1), y \in 0..(bitmap.height - 1), c \in 0..2 :
        Load(heap, img.pixels, img.stride * y + 3 * x + c, NaN) = DecodedByte(x, y, c)

\* C16: for every layout, width and height, after img_gamma_decode_bitmap the
\* sample at stride * y + 3 * x + c is the decoded byte
\* bitmap[pixel_size * (width * y + x) + offset[c]] for every pixel (x, y) and
\* channel c.
C16_DecodePlacesEverySample == JustDecoded => SamplesAreDecodedBytes

\* The same for the layouts of three bytes per pixel.
DecodePlacesThreeByteLayouts ==
    (JustDecoded /\ pixel_format_size[bitmap.format] = 3) => SamplesAreDecodedBytes

(***************************************************************************)
(* The crop view of the resize stage and the storage it borrows.           *)
(***************************************************************************)
\* The view exists: img_crop has been called.
ViewCreated == StagesOf("img_crop") # {}

\* The block the view points into is allocated.
ViewStorageLives ==
    /\ cropped.pixels.blk \in 1..Len(heap)
    /\ heap[cropped.pixels.blk].live

\* What the log and the heap say about the view at every point of a run.
ViewUsedWhileSourceLives ==
    /\ \A k \in DOMAIN stages :
          /\ stages[k].dst = "cropped" => stages[k].op = "img_crop"
          /\ stages[k].op = "free" => stages[k].src = "img"
          /\ stages[k].src = "cropped" =>
                /\ stages[k].op = "img_interp_nearest"
                /\ \E j \in StagesOf("img_crop") : j < k
                /\ \A j \in StagesOf("free") \cup StagesOf("assign") : k < j
    /\ \A j \in StagesOf("free") : \E k \in StagesOf("img_interp_nearest") : k < j
    /\ pc = "resize_interp" =>
          /\ ViewCreated
          /\ ViewStorageLives
          /\ cropped.pixels.blk = img.pixels.blk
          /\ ~cropped.owner
    /\ (ViewCreated /\ StagesOf("free") # {}) => ~ViewStorageLives
    /\ ViewCreated => main_src # "cropped" /\ main_dst # "cropped"

\* The step that reads the view leaves its source and the storage in place,
\* and the storage of the view is released by the step after the resample only.
ViewSourceReleasedAfterResample ==
    /\ pc = "resize_interp" =>
          /\ img' = img
          /\ heap'[cropped.pixels.blk] = heap[cropped.pixels.blk]
    /\ (ViewCreated /\ ViewStorageLives /\ ~ViewStorageLives') =>
          /\ pc = "resize_free"
          /\ StagesOf("img_interp_nearest") # {}
    /\ ViewCreated => cropped' = cropped

\* C17: the crop view is read only between its creation and the release of its
\* source: the source's storage is freed only after the resample of the view
\* has finished, the view is never a destination of img_set_size, of a filter
\* pass or of a transpose, its pointer is never given to free, and nothing
\* reads it once the source is freed or replaced.
C17_ViewDoesNotOutliveSource ==
    []ViewUsedWhileSourceLives /\ [][ViewSourceReleasedAfterResample]_vars

\* A run with a resize has come to its end: the view was made, read once by
\* the resample, and its storage was freed after that.
C17_Witness ==
    /\ pc = "exit"
    /\ ViewCreated
    /\ ~ViewStorageLives
    /\ stages[Len(stages)].op = "img_gamma_encode_to_bitmap"
    /\ Cardinality({k \in DOMAIN stages : stages[k].src = "cropped"}) = 1
    /\ cropped.width < bitmap.width

(***************************************************************************)
(* The source coordinates of the nearest-neighbour resample.               *)
(***************************************************************************)
\* The columns and the rows of the view that img_interp_nearest reads when it
\* fills an image of the size of the geometry.
InterpColumns ==
    {interp_src(x, cropped.width, arguments.geom.width) :
        x \in 0..(arguments.geom.width - 1)}

InterpRows ==
    {interp_src(y, cropped.height, arguments.geom.height) :
        y \in 0..(arguments.geom.height - 1)}

\* C18: for every source size and every target size of 1 or more, upscaling by
\* 2 or more included, every source coordinate that img_interp_nearest reads
\* is inside the source: 0 <= x_src < source_w and 0 <= y_src < source_h.
C18_InterpReadsInsideSource ==
    (pc = "resize_interp" /\ cropped.width >= 1 /\ cropped.height >= 1) =>
        /\ InterpColumns \subseteq 0..(cropped.width - 1)
        /\ InterpRows \subseteq 0..(cropped.height - 1)

\* The same for the targets less than twice as wide and as high as the source.
InterpInsideBelowTwice ==
    (/\ pc = "resize_interp"
     /\ cropped.width >= 1
     /\ cropped.height >= 1
     /\ arguments.geom.width < 2 * cropped.width
     /\ arguments.geom.height < 2 * cropped.height) =>
        /\ InterpColumns \subseteq 0..(cropped.width - 1)
        /\ InterpRows \subseteq 0..(cropped.height - 1)

(***************************************************************************)
(* The source pixels that a pass reads for one row.                        *)
(***************************************************************************)
\* The samples of the source that the pass just made has read for row y.
RowReadCells(y) ==
    {RowCell(img, y, x, c) : x \in mov_avg_reads(call.width, call.n), c \in 0..2}

\* The samples of row y of the source.
RowOwnCells(y) ==
    {RowCell(img, y, x, c) : x \in 0..(call.width - 1), c \in 0..2}

ReadsStayInRow ==
    /\ mov_avg_reads(call.width, call.n) \subseteq 0..(call.width - 1)
    /\ \A y \in 0..(call.height - 1) : RowReadCells(y) \subseteq RowOwnCells(y)

\* C19: for every odd kernel size n and every width and height of 1 or more,
\* when img_mov_avg_h computes row y it reads only the samples of row y of the
\* source, at pixel indices 0..W-1: no row depends on another and no read
\* falls outside the W * H pixels of the source.
C19_PassReadsOnlyItsRow ==
    (pc = "filtered" /\ call.op = "img_mov_avg_h") => ReadsStayInRow

\* The same for the rows that are wider than the kernel half-width.
PassReadsOnlyItsRowWideRows ==
    (/\ pc = "filtered"
     /\ call.op = "img_mov_avg_h"
     /\ call.width > (call.n - 1) \div 2) => ReadsStayInRow

=============================================================================
